---- MODULE Spec2Model ----
(***************************************************************************)
(* A model of the mixin core of nodeedge (src/nodeedge/mixins.py):         *)
(* Cloneable, Valueable, Compositable / CompositableItem / Composition,    *)
(* Pathable and Filterable, together with the lookup enumeration of        *)
(* src/nodeedge/query/_lookup.py.                                          *)
(*                                                                         *)
(* Python objects live in a heap (a sequence; an object's identity is its  *)
(* index).  An object is a class name and an instance dictionary; reading  *)
(* an attribute falls back to the class attributes along the MRO, as       *)
(* Python's getattr does.  Python values are tagged records [t, v].  The   *)
(* class objects are state as well: classes maps the name of every class   *)
(* defined so far to its attributes.  The calls that threads are in the    *)
(* middle of are frames: threads maps a thread to its position and locals. *)
(***************************************************************************)
EXTENDS Integers, Sequences, FiniteSets, TLC

VARIABLES classes, heap, last, events, threads

vars == <<classes, heap, last, events, threads>>

(***************************************************************************)
(* Bounds of the model.                                                    *)
(***************************************************************************)
MaxClones == 2
MaxValues == 3
MaxPaths == 2
MaxCompositions == 3
MaxFilterObjects == 4
MaxComponents == 3
MaxLoaderCalls == 2
MaxThreads == 2
MaxModels == 2
MaxInstances == 1
MaxDistance == 2
MaxUnits == 1
MaxSteps == 3

(***************************************************************************)
(* Python values.                                                          *)
(***************************************************************************)
None == [t |-> "NoneType", v |-> 0]
Undefined == [t |-> "UndefinedType", v |-> 0]
Ellipsis == [t |-> "ellipsis", v |-> 0]
PyInt(n) == [t |-> "int", v |-> n]
PyBool(b) == [t |-> "bool", v |-> b]
PyStr(s) == [t |-> "str", v |-> s]
Ref(i) == [t |-> "object", v |-> i]
FrozenSet(S) == [t |-> "frozenset", v |-> S]
EnumOperand(m) == [t |-> "EnumOperand", v |-> m]
AND == EnumOperand("AND")
OR == EnumOperand("OR")
ClassRef(c) == [t |-> "type", v |-> c]
Listener(name) == [t |-> "CompositionListener", v |-> name]

\* the members of the flag enumeration EnumLookupExpression: by value, and by
\* name with the values that enum.auto() gives them
LookupExpression(n) == [t |-> "EnumLookupExpression", v |-> n]
Lookup(name) ==
    LookupExpression(CASE name = "NOT" -> 1 [] name = "EQUAL" -> 2 [] name = "IN" -> 4
                       [] name = "GE" -> 8 [] name = "GT" -> 16 [] name = "LE" -> 32
                       [] name = "LT" -> 64 [] name = "EXISTS" -> 128
                       [] name = "LIKE" -> 256 [] name = "ILIKE" -> 512)

IsRef(x) == x.t = "object"

\* bool(x): objects of the modelled classes define neither __bool__ nor __len__
Truthy(x) ==
    CASE x.t = "NoneType" -> FALSE
      [] x.t = "int" -> x.v # 0
      [] x.t = "bool" -> x.v # 0
      [] x.t = "str" -> x.v # ""
      [] x.t = "frozenset" -> x.v # {}
      [] x.t = "EnumLookupExpression" -> x.v # 0
      [] OTHER -> TRUE

\* the value that  a or b  evaluates to
PyOr(a, b) == IF Truthy(a) THEN a ELSE b

\* a == b for the modelled values: numbers compare by value (True == 1),
\* objects of the modelled classes by identity, everything else structurally
PyEq(a, b) == IF a.t \in {"int", "bool"} /\ b.t \in {"int", "bool"} THEN a.v = b.v ELSE a = b

(***************************************************************************)
(* Classes.  MRO(c) is the method resolution order restricted to the       *)
(* classes of the library and of the application; Declares(c) maps the     *)
(* attributes assigned in the body of class c to their values.             *)
(***************************************************************************)
MRO(c) ==
    CASE c = "CloneSample" -> <<"CloneSample", "Pathable", "Cloneable">>
      [] c = "ValueSample" -> <<"ValueSample", "Cloneable", "Valueable">>
      [] c = "UntypedSample" -> <<"UntypedSample", "Cloneable", "Valueable">>
      [] c = "BoolSample" -> <<"BoolSample", "Cloneable", "Valueable">>
      [] c = "PathSample1" -> <<"PathSample1", "Cloneable", "Pathable">>
      [] c = "PathSample2" -> <<"PathSample2", "Cloneable", "Pathable">>
      [] c = "CompositableItem" -> <<"CompositableItem", "Compositable">>
      [] c = "Composition" -> <<"Composition", "Compositable">>
      [] c = "CompositedItem" -> <<"CompositedItem", "Composition", "Compositable">>
      [] c = "CloneableComposited" ->
            <<"CloneableComposited", "Cloneable", "Composition", "Compositable">>
      [] c = "Item" -> <<"Item", "CompositableItem", "Compositable">>
      [] c = "ItemOfCloneable" -> <<"ItemOfCloneable", "CompositableItem", "Compositable">>
      [] c = "Filter" -> <<"Filter", "Filterable", "Valueable", "Cloneable",
                           "CompositableItem", "Compositable">>
      [] c = "TypedFilter" -> <<"TypedFilter", "Filterable", "Valueable", "Cloneable">>
      [] c = "Field" -> <<"Field", "Pathable", "Valueable", "Cloneable">>
      [] c = "SampleModel" -> <<"SampleModel", "BaseNodeModel">>
      [] c = "PathableModel" -> <<"PathableModel", "BaseNodeModel", "Pathable">>
      [] c = "Declared" -> <<"Declared", "Cloneable">>
      [] c = "Derived" -> <<"Derived", "Declared", "Cloneable">>
      [] OTHER -> <<c>>

\* an entry of __orig_bases__: get_origin(base) and base.__args__
OrigBase(origin, args) == [origin |-> origin, args |-> args]
\* a base that is a plain class: get_origin gives None
PlainBase == OrigBase("", <<>>)
Tuple(seq) == [t |-> "tuple", v |-> seq]

Declares(c) ==
    CASE c = "Cloneable" ->
            [__cloning_attrs__ |-> FrozenSet({"__is_mixin__", "__allow_mixin_operation__"}),
             __is_mixin__ |-> PyBool(1),
             __allow_mixin_operation__ |-> PyBool(1),
             __cloning_operator__ |-> None]
      [] c = "Pathable" ->
            [__cloning_attrs__ |-> FrozenSet({"__current__", "__backward__", "__forward__"}),
             __is_mixin__ |-> PyBool(1),
             __allow_mixin_operation__ |-> PyBool(1),
             __current__ |-> None,
             __backward__ |-> None,
             __forward__ |-> None]
      [] c = "Valueable" ->
            [__cloning_attrs__ |-> FrozenSet({"__value__", "__value_type__"}),
             __is_mixin__ |-> PyBool(1),
             __allow_mixin_operation__ |-> PyBool(1),
             __value__ |-> Undefined,
             __value_type__ |-> Ellipsis,
             __orig_bases__ |-> Tuple(<<PlainBase, OrigBase("Generic", <<"_Valueable_T">>)>>)]
      [] c = "ValueSample" ->
            [__orig_bases__ |-> Tuple(<<PlainBase, OrigBase("Valueable", <<"int">>)>>)]
      [] c = "BoolSample" ->
            [__orig_bases__ |-> Tuple(<<PlainBase, OrigBase("Valueable", <<"bool">>)>>)]
      [] c = "Compositable" ->
            [__cloning_attrs__ |-> FrozenSet({"__operand__"}),
             __is_mixin__ |-> PyBool(1),
             __allow_mixin_operation__ |-> PyBool(1)]
      [] c = "CompositableItem" ->
            [__cloning_attrs__ |-> FrozenSet({"__operand__", "__compositable_class__"}),
             __operand__ |-> AND]
      [] c = "Composition" ->
            [__cloning_attrs__ |-> FrozenSet({"__listener__", "__operand__"}),
             __listener__ |-> Listener("default"),
             __operand__ |-> AND]
      [] c \in {"CompositedItem", "CloneableComposited"} ->
            [__listener__ |-> Listener("listener")]
      [] c = "Item" ->
            [__orig_bases__ |->
                Tuple(<<OrigBase("CompositableItem", <<"str", "CompositedItem">>)>>)]
      [] c = "ItemOfCloneable" ->
            [__orig_bases__ |->
                Tuple(<<OrigBase("CompositableItem", <<"str", "CloneableComposited">>)>>)]
      [] c = "Filterable" ->
            [__cloning_attrs__ |-> FrozenSet({"__lookup__"}),
             __is_mixin__ |-> PyBool(1),
             __allow_mixin_operation__ |-> PyBool(1),
             __lookup__ |-> Lookup("EQUAL")]
      [] c = "Filter" ->
            [__orig_bases__ |->
                Tuple(<<OrigBase("Filterable", <<"Field">>), PlainBase, PlainBase,
                        OrigBase("CompositableItem", <<"Field", "CompositedItem">>)>>)]
      [] c = "TypedFilter" ->
            [__orig_bases__ |->
                Tuple(<<OrigBase("Filterable", <<"int">>), OrigBase("Valueable", <<"int">>),
                        PlainBase>>)]
      [] c = "Field" ->
            [__cloning_operator__ |-> [t |-> "function", v |-> "smart_deepcopy"],
             __cloning_attrs__ |-> FrozenSet({"field_info"})]
      [] c = "BaseBackendLoader" -> [__instances |-> <<>>]
      [] c = "Int16" -> [ge |-> PyInt(-32768), le |-> PyInt(32767)]
      [] c = "PathSample1" -> [name |-> PyInt(1)]
      [] c = "PathSample2" -> [name |-> PyInt(2)]
      [] c = "CloneSample" ->
            [__cloning_attrs__ |-> FrozenSet({"name2"}),
             name |-> None,
             name2 |-> PyStr("hello")]
      [] OTHER -> <<>>

\* the parameters of cls.__init__ after self, as inspect.signature lists them
InitParams(c) ==
    CASE c = "CloneSample" ->
            <<[name |-> "value", kind |-> "POSITIONAL_ONLY"],
              [name |-> "value2", kind |-> "POSITIONAL_OR_KEYWORD"],
              [name |-> "value3", kind |-> "KEYWORD_ONLY"]>>
      [] c \in {"ValueSample", "UntypedSample", "BoolSample"} ->
            <<[name |-> "value", kind |-> "POSITIONAL_OR_KEYWORD"]>>
      [] c \in {"Item", "ItemOfCloneable"} ->
            <<[name |-> "name", kind |-> "POSITIONAL_OR_KEYWORD"]>>
      [] OTHER ->
            <<[name |-> "args", kind |-> "VAR_POSITIONAL"],
              [name |-> "kwargs", kind |-> "VAR_KEYWORD"]>>

IsSubclass(c, base) == \E i \in DOMAIN MRO(c) : MRO(c)[i] = base

\* the direct bases of a class (cls.__bases__)
Bases(c) ==
    CASE c = "CloneSample" -> <<"Pathable", "Cloneable">>
      [] c \in {"ValueSample", "UntypedSample", "BoolSample"} -> <<"Cloneable", "Valueable">>
      [] c \in {"PathSample1", "PathSample2"} -> <<"Cloneable", "Pathable">>
      [] c \in {"CompositableItem", "Composition"} -> <<"Compositable">>
      [] c = "CompositedItem" -> <<"Composition">>
      [] c = "CloneableComposited" -> <<"Cloneable", "Composition">>
      [] c \in {"Item", "ItemOfCloneable"} -> <<"CompositableItem">>
      [] c = "Filter" -> <<"Filterable", "Valueable", "Cloneable", "CompositableItem">>
      [] c = "TypedFilter" -> <<"Filterable", "Valueable", "Cloneable">>
      [] c = "Declared" -> <<"Cloneable">>
      [] c = "Derived" -> <<"Declared">>
      [] c = "Field" -> <<"Pathable", "Valueable", "Cloneable">>
      [] OTHER -> <<>>

\* getattr(cls, name, default), over the table T of the classes defined so far
TableGetAttr(T, c, name, default) ==
    LET S == {i \in DOMAIN MRO(c) : name \in DOMAIN T[MRO(c)[i]]}
    IN IF S = {} THEN default
       ELSE T[MRO(c)[CHOOSE i \in S : \A j \in S : i <= j]][name]

\* the characters of the strings that a class body of the model declares
Characters(s) ==
    CASE s = "name" -> {"n", "a", "m", "e"}
      [] s = "id" -> {"i", "d"}
      [] OTHER -> {}

\* frozenset(x): the elements that iterating x gives, or the TypeError for a
\* value that is not iterable
frozenset_of(x) ==
    CASE x.t \in {"frozenset", "set"} -> [exc |-> "", v |-> x.v]
      [] x.t \in {"tuple", "list"} -> [exc |-> "", v |-> {x.v[i] : i \in DOMAIN x.v}]
      [] x.t = "str" -> [exc |-> "", v |-> Characters(x.v)]
      [] OTHER -> [exc |-> "TypeError", v |-> {}]

\* _extend_cloning_attrs(cls): the value it stores in cls.__cloning_attrs__;
\* T holds cls as its class body left it
extend_cloning_attrs(T, c) ==
    LET inherited(b) ==
            IF b \in {"Cloneable", "ABC", "ABCMeta"} THEN {}
            ELSE IF TableGetAttr(T, b, "__cloning_attrs__", None).t \in {"tuple", "set", "frozenset"}
            THEN frozenset_of(TableGetAttr(T, b, "__cloning_attrs__", None)).v
            ELSE {}
    IN FrozenSet(frozenset_of(TableGetAttr(T, c, "__cloning_attrs__", FrozenSet({}))).v
                    \cup UNION {inherited(Bases(c)[i]) : i \in DOMAIN Bases(c)})

\* _extend_cloning_args(cls): the TypeError, or __init_args__ and __init_kwargs__
extend_cloning_args(c, cloning_attrs) ==
    IF cloning_attrs.t \notin {"frozenset", "tuple"}
    THEN [exc |-> "TypeError", init_args |-> <<>>, init_kwargs |-> {}]
    ELSE LET ps == InitParams(c)
             skipped(p) == \/ p.name = "self"
                           \/ p.name = "args" /\ p.kind = "VAR_POSITIONAL"
                           \/ p.name = "kwargs" /\ p.kind = "VAR_KEYWORD"
             positional(p) == p.kind \in {"POSITIONAL_ONLY", "POSITIONAL_OR_KEYWORD",
                                          "VAR_POSITIONAL"}
             keyword(p) == p.kind \in {"KEYWORD_ONLY", "VAR_KEYWORD"}
             argIdx == {i \in DOMAIN ps : ~skipped(ps[i]) /\ positional(ps[i])}
             nth(k) == CHOOSE i \in argIdx : Cardinality({j \in argIdx : j < i}) = k - 1
         IN [exc |-> "",
             init_args |-> [k \in 1..Cardinality(argIdx) |-> ps[nth(k)].name],
             init_kwargs |-> {ps[i].name : i \in {i \in DOMAIN ps :
                                 ~skipped(ps[i]) /\ ~positional(ps[i]) /\ keyword(ps[i])}}]

\* Cloneable.__init_subclass__(cls): the class attributes it leaves
Cloneable_init_subclass(T, c) ==
    IF c # "Cloneable" /\ Truthy(TableGetAttr(T, c, "__allow_mixin_operation__", PyBool(1)))
    THEN [n \in DOMAIN T[c] \cup {"__cloning_attrs__", "__init_args__", "__init_kwargs__"} |->
            CASE n = "__cloning_attrs__" -> extend_cloning_attrs(T, c)
              [] n = "__init_args__" ->
                    [t |-> "tuple",
                     v |-> extend_cloning_args(c, extend_cloning_attrs(T, c)).init_args]
              [] n = "__init_kwargs__" ->
                    FrozenSet(extend_cloning_args(c, extend_cloning_attrs(T, c)).init_kwargs)
              [] OTHER -> T[c][n]]
    ELSE T[c]

\* CompositableItem.__init_subclass__(cls): the first argument of the
\* CompositableItem[...] base that is a subclass of Composition becomes
\* cls.__compositable_class__ (every modelled class names one)
composition_args(bases) ==
    SelectSeq(SelectSeq(bases, LAMBDA b : b.origin = "CompositableItem")[1].args,
              LAMBDA t : IsSubclass(t, "Composition"))

CompositableItem_init_subclass(T, c) ==
    ("__compositable_class__" :>
        ClassRef(composition_args(TableGetAttr(T, c, "__orig_bases__", Tuple(<<>>)).v)[1]))
    @@ T[c]

\* the __init_subclass__ hooks of c along its MRO, run on the table T in
\* which c is as its class body left it: that of Cloneable, which passes on
\* to the next one, and that of CompositableItem
init_subclass(T, c, hook) ==
    IF c # hook /\ IsSubclass(c, hook)
    THEN (c :> (IF hook = "Cloneable" THEN Cloneable_init_subclass(T, c)
                ELSE CompositableItem_init_subclass(T, c))) @@ T
    ELSE T

\* the exception that ends Cloneable.__init_subclass__(cls), "" when it
\* returns: the TypeError of frozenset(...) in _extend_cloning_attrs, or the
\* one that _extend_cloning_args raises
init_subclass_exc(T, c) ==
    IF c # "Cloneable" /\ IsSubclass(c, "Cloneable")
       /\ Truthy(TableGetAttr(T, c, "__allow_mixin_operation__", PyBool(1)))
    THEN IF frozenset_of(TableGetAttr(T, c, "__cloning_attrs__", FrozenSet({}))).exc # ""
         THEN frozenset_of(TableGetAttr(T, c, "__cloning_attrs__", FrozenSet({}))).exc
         ELSE extend_cloning_args(c, extend_cloning_attrs(T, c)).exc
    ELSE ""

\* the class statement of c with the given body, executed when the classes
\* of T exist: the body assigns the class attributes, then the
\* __init_subclass__ hooks run; a hook that raises leaves no class
class_body(T, c, body) ==
    IF init_subclass_exc((c :> body) @@ T, c) # "" THEN T
    ELSE init_subclass(init_subclass((c :> body) @@ T, c, "Cloneable"),
                       c, "CompositableItem")

class_statement(T, c) == class_body(T, c, Declares(c))

\* the class statements of a program, executed in order
RECURSIVE DefineClasses(_)
DefineClasses(order) ==
    IF order = <<>> THEN <<>>
    ELSE class_statement(DefineClasses(SubSeq(order, 1, Len(order) - 1)), order[Len(order)])

\* hasattr(cls, name) / getattr(cls, name, default) on a defined class
ClassHasAttr(c, name) == \E i \in DOMAIN MRO(c) : name \in DOMAIN classes[MRO(c)[i]]

ClassGetAttr(c, name, default) == TableGetAttr(classes, c, name, default)

(***************************************************************************)
(* Objects.                                                                *)
(***************************************************************************)
Obj(c, d) == [cls |-> c, d |-> d]

\* the read-only and read-write properties of the mixins: name -> the
\* attribute it projects
Properties(c) ==
    CASE c = "Valueable" -> [value |-> "__value__"]
      [] c = "Filterable" -> [value |-> "__value__"]
      [] c = "Compositable" -> [operand |-> "__operand__"]
      [] c = "Composition" -> [left |-> "__left__", right |-> "__right__"]
      [] OTHER -> <<>>

PropertyOwner(c, name) ==
    LET S == {i \in DOMAIN MRO(c) : name \in DOMAIN Properties(MRO(c)[i])}
    IN IF S = {} THEN "" ELSE MRO(c)[CHOOSE i \in S : \A j \in S : i <= j]

\* the attribute that  o.name  finally reads
projected_by(owner, name) == IF owner = "" THEN name ELSE Properties(owner)[name]
Projected(c, name) == projected_by(PropertyOwner(c, name), name)

\* hasattr(o, name) / getattr(o, name)
has_own_or_class_attr(o, n) == n \in DOMAIN o.d \/ ClassHasAttr(o.cls, n)
HasAttr(o, name) == has_own_or_class_attr(o, Projected(o.cls, name))

own_or_class_attr(o, n) == IF n \in DOMAIN o.d THEN o.d[n] ELSE ClassGetAttr(o.cls, n, None)
GetAttr(o, name) == own_or_class_attr(o, Projected(o.cls, name))

\* setattr(o, name, value): the exception it raises ("" when none)
property_set_exc(owner, value) ==
    CASE owner = "Compositable" -> IF value.t # "EnumOperand" THEN "TypeError" ELSE ""
      [] owner # "" -> "AttributeError"
      [] OTHER -> ""

SetAttrExc(c, name, value) == property_set_exc(PropertyOwner(c, name), value)

SetAttr(o, name, value) == Obj(o.cls, (Projected(o.cls, name) :> value) @@ o.d)

\* the outcome of an operation: the new heap, the value returned and the
\* exception raised ("" when the operation returned normally)
Outcome(h, ret, exc) == [heap |-> h, ret |-> ret, exc |-> exc]
Raise(h, exc) == Outcome(h, None, exc)

(***************************************************************************)
(* Valueable: the lazily resolved type set and check_value                 *)
(***************************************************************************)
\* type(value), for the values that are bound: no modelled type set names a class
TypeOf(x) == x.t

\* the entries of __orig_bases__ whose origin is Valueable
ValueableBases(o) ==
    SelectSeq(IF HasAttr(o, "__orig_bases__") THEN GetAttr(o, "__orig_bases__").v ELSE <<>>,
              LAMBDA b : b.origin = "Valueable")

\* Valueable.__set_value_type: the object with __value_type__ resolved
Valueable_set_value_type(o) ==
    IF GetAttr(o, "__value_type__") # Ellipsis THEN o
    ELSE IF ValueableBases(o) # <<>>
    THEN LET args == ValueableBases(o)[1].args
         IN  SetAttr(o, "__value_type__", FrozenSet({args[i] : i \in DOMAIN args}))
    ELSE SetAttr(o, "__value_type__", None)

\* a check by isinstance, for which a bool is an int
value_type_error_isinstance(o, type) ==
    IF ~Truthy(GetAttr(o, "__value_type__")) THEN ""
    ELSE IF type \notin GetAttr(o, "__value_type__").v
            /\ ~(type = "bool" /\ "int" \in GetAttr(o, "__value_type__").v)
    THEN "TypeError"
    ELSE ""

\* the exception check_value raises once the type set is resolved
value_type_error(o, type) ==
    IF ~Truthy(GetAttr(o, "__value_type__")) THEN ""
    ELSE IF type \notin GetAttr(o, "__value_type__").v THEN "TypeError"
    ELSE ""

\* Valueable.check_value, resolved being self once __set_value_type has run:
\* the object, whose type set is now resolved, and the exception raised
Valueable_check_value(resolved, type) ==
    [o |-> resolved, exc |-> value_type_error(resolved, type)]

(***************************************************************************)
(* Constructors: calling a class with positional and keyword arguments, as *)
(* its __init__ binds them.  The result is the instance dictionary or the  *)
(* exception.                                                              *)
(***************************************************************************)
\* Sample.__init__ of test_valueable: self.check_value(value); self.__value__ = value
value_sample_init(value, checked) ==
    [exc |-> checked.exc, d |-> ("__value__" :> value) @@ checked.o.d]

\* BackendLoader.__init__(backend).  A dotted name is the sequence of its
\* components: backend.split(".") gives them, ".".join(parts) and f"{a}.{b}"
\* concatenate them, and the empty string is one empty component
BackendLoader_init(backend) ==
    IF Len(backend) < 2 THEN [exc |-> "ValueError", d |-> <<>>]
    ELSE LET back_namespace == SubSeq(backend, 2, Len(backend) - 1)
             base_namespace == IF back_namespace = <<>> THEN <<"">> ELSE back_namespace
         IN  [exc |-> "",
              d |-> [package |-> <<backend[1]>>,
                     name |-> <<backend[Len(backend)]>>,
                     base_namespace |-> <<backend[1]>> \o base_namespace,
                     _field_type_map |-> None]]

Construct(c, args, kwargs) ==
    CASE c \in {"ValueSample", "UntypedSample", "BoolSample"} ->
            IF Len(args) # 1 \/ DOMAIN kwargs # {}
            THEN [exc |-> "TypeError", d |-> <<>>]
            ELSE value_sample_init(
                     args[1],
                     Valueable_check_value(Valueable_set_value_type(Obj(c, <<>>)),
                                           TypeOf(args[1])))
      [] c \in {"Item", "ItemOfCloneable"} ->
            IF Len(args) # 1 \/ DOMAIN kwargs # {}
            THEN [exc |-> "TypeError", d |-> <<>>]
            ELSE [exc |-> "", d |-> [name |-> args[1]]]
      [] c = "CloneSample" ->
            IF Len(args) # 2 \/ ~(DOMAIN kwargs \subseteq {"value3"})
            THEN [exc |-> "TypeError", d |-> <<>>]
            ELSE [exc |-> "",
                  d |-> [value |-> args[1],
                         value2 |-> args[2],
                         value3 |-> IF "value3" \in DOMAIN kwargs
                                    THEN kwargs["value3"] ELSE PyInt(0)]]
      [] c = "BackendLoader" ->
            IF Len(args) # 1 \/ DOMAIN kwargs # {}
            THEN [exc |-> "TypeError", d |-> <<>>]
            ELSE BackendLoader_init(args[1])
      [] OTHER ->
            IF Len(args) # 0 \/ DOMAIN kwargs # {}
            THEN [exc |-> "TypeError", d |-> <<>>]
            ELSE [exc |-> "", d |-> <<>>]

(***************************************************************************)
(* Cloneable._clone                                                        *)
(***************************************************************************)
skip_arg_names == {"__pydantic_self__"}

RECURSIVE SetAll(_, _, _)
set_one(o, names, vals, n, e) ==
    IF e # "" THEN [exc |-> e, o |-> o]
    ELSE SetAll(SetAttr(o, n, vals[n]), names \ {n}, vals)

set_next(o, names, vals, n) == set_one(o, names, vals, n, SetAttrExc(o.cls, n, vals[n]))

\* setattr(obj, n, vals[n]) for every n of names; [exc, o]
SetAll(o, names, vals) ==
    IF names = {} THEN [exc |-> "", o |-> o]
    ELSE set_next(o, names, vals, CHOOSE n \in names : TRUE)

\* the names of __init_args__ and of __init_kwargs__ that _clone passes on
clone_arg_names(src) ==
    SelectSeq(ClassGetAttr(src.cls, "__init_args__", [t |-> "tuple", v |-> <<>>]).v,
              LAMBDA n : n \notin skip_arg_names)

clone_kwarg_names(src, args) ==
    {n \in ClassGetAttr(src.cls, "__init_kwargs__", FrozenSet({})).v :
        n \notin skip_arg_names /\ n \notin DOMAIN args}

\* arguments that are read from the source whatever the overrides say
attr_despite_override(src, overrides, n) == GetAttr(src, n)

\* init_args and init_kwargs: the override when given, else the attribute of
\* the same name read from the source
override_or_attr(src, overrides, n) ==
    IF n \in DOMAIN overrides THEN overrides[n] ELSE GetAttr(src, n)

init_args_of(src, names, args) ==
    [i \in DOMAIN names |-> override_or_attr(src, args, names[i])]

clone_init_args(src, args) == init_args_of(src, clone_arg_names(src), args)

clone_init_kwargs(src, args, kwargs) ==
    [n \in clone_kwarg_names(src, args) |-> override_or_attr(src, kwargs, n)]

\* some getattr(self, name) of the two loops raises AttributeError
unreadable(src, overrides, n) == n \notin DOMAIN overrides /\ ~HasAttr(src, n)

unreadable_arg(src, names, args) == \E i \in DOMAIN names : unreadable(src, args, names[i])

clone_unreadable(src, args, kwargs) ==
    \/ unreadable_arg(src, clone_arg_names(src), args)
    \/ \E n \in clone_kwarg_names(src, args) : unreadable(src, kwargs, n)

\* the last loop: the overrides are set on the new object, which joins the heap
clone_return(h, final) ==
    IF final.exc # "" THEN Raise(h, final.exc)
    ELSE Outcome(Append(h, final.o), Ref(Len(h) + 1), "")

clone_override(h, copied, attrs) ==
    IF copied.exc # "" THEN Raise(h, copied.exc)
    ELSE clone_return(h, SetAll(copied.o, DOMAIN attrs, attrs))

\* a _clone that forgets the loop over __cloning_attrs__
clone_carry_skipped(h, src, obj, carry, attrs) ==
    clone_override(h, [exc |-> "", o |-> obj], attrs)

\* the loop over __cloning_attrs__: every carry-over attribute that is not
\* overridden is copied from the source
clone_carry(h, src, obj, carry, attrs) ==
    IF \E n \in carry : ~HasAttr(src, n) THEN Raise(h, "AttributeError")
    ELSE clone_override(h, SetAll(obj, carry, [n \in carry |-> GetAttr(src, n)]), attrs)

\* obj = self.__cloning_operator__(self) or self.__class__(*init_args,
\* **init_kwargs), built being its outcome; then the loop over __cloning_attrs__
clone_construct(h, src, built, attrs) ==
    IF built.exc # "" THEN Raise(h, built.exc)
    ELSE clone_carry(h, src, Obj(src.cls, built.d),
                     ClassGetAttr(src.cls, "__cloning_attrs__", FrozenSet({})).v \ DOMAIN attrs,
                     attrs)

Cloneable_clone(h, self, args, kwargs, attrs) ==
    IF clone_unreadable(h[self], args, kwargs) THEN Raise(h, "AttributeError")
    ELSE clone_construct(h, h[self],
                         \* smart_deepcopy(self): the objects that the copy refers to
                         \* are copies as well, but every attribute of a Field that
                         \* holds an object is a carry-over attribute, set anew below
                         IF ClassGetAttr(h[self].cls, "__cloning_operator__", None).t = "function"
                         THEN [exc |-> "", d |-> h[self].d]
                         ELSE Construct(h[self].cls, clone_init_args(h[self], args),
                                        clone_init_kwargs(h[self], args, kwargs)),
                         attrs)

\* Cloneable.required_cloneable_inheritance(obj)
required_cloneable_inheritance(c) == IF IsSubclass(c, "Cloneable") THEN "" ELSE "TypeError"

\* self._clone(...): the _clone of a mixin that precedes Cloneable in the MRO
\* guards and delegates to the next one; all of them end in Cloneable._clone
guarded_clone(h, self, args, kwargs, attrs, exc) ==
    IF exc # "" THEN Raise(h, exc) ELSE Cloneable_clone(h, self, args, kwargs, attrs)

Clone(h, self, args, kwargs, attrs) ==
    guarded_clone(h, self, args, kwargs, attrs, required_cloneable_inheritance(h[self].cls))

(***************************************************************************)
(* The record of the latest operation: what was called on what, with which *)
(* arguments, what it returned and what it raised.                         *)
(***************************************************************************)
NoCall == [op |-> "", self |-> 0, other |-> None, args |-> <<>>, kwargs |-> <<>>,
           attrs |-> <<>>, ret |-> None, exc |-> ""]

Called(op, self, other) == [NoCall EXCEPT !.op = op, !.self = self, !.other = other]

\* the step of an operation: its effect on the heap and the record of the call
Perform(call, out) ==
    /\ heap' = out.heap
    /\ last' = [call EXCEPT !.ret = out.ret, !.exc = out.exc]
    /\ UNCHANGED <<classes, events, threads>>

Objects == DOMAIN heap

CountOf(c) == Cardinality({i \in Objects : heap[i].cls = c})

(***************************************************************************)
(* Cloning a plain Cloneable: class Sample(Pathable, Cloneable) of         *)
(* test_cloneable, here CloneSample, or class Sample(Cloneable,            *)
(* Valueable[int]) of test_valueable, here ValueSample, whose constructor  *)
(* assigns a carry-over attribute.                                         *)
(***************************************************************************)

ArgOverrides == {<<>>, [value |-> PyInt(7)]}
KwargOverrides == {<<>>, [value3 |-> PyInt(5)]}
AttrOverrides == {<<>>, [name |-> PyStr("test")], [name2 |-> PyStr("bye")],
                  [value2 |-> PyInt(99)]}

InitClone ==
    /\ classes = DefineClasses(<<"Cloneable", "Pathable", "Valueable", "CloneSample",
                                 "ValueSample">>)
    /\ \/ \E a \in {PyInt(10), PyInt(20)} :
             heap = <<Obj("CloneSample", Construct("CloneSample", <<a, PyInt(20)>>, <<>>).d)>>
       \/ heap = <<Obj("ValueSample", Construct("ValueSample", <<PyInt(5)>>, <<>>).d)>>
    /\ last = NoCall
    /\ events = <<>>
    /\ threads = <<>>

\* origin.set_name(value)
SetName(x, value) ==
    /\ heap[x].cls = "CloneSample"
    /\ CountOf("CloneSample") <= MaxClones
    /\ Perform([Called("_clone", x, None) EXCEPT !.attrs = [name |-> value]],
               Clone(heap, x, <<>>, <<>>, [name |-> value]))

\* x._clone(args=..., kwargs=..., attrs=...)
CloneWith(x, args, kwargs, attrs) ==
    /\ CountOf(heap[x].cls) <= MaxClones
    /\ Perform([Called("_clone", x, None)
                    EXCEPT !.args = args, !.kwargs = kwargs, !.attrs = attrs],
               Clone(heap, x, args, kwargs, attrs))

NextClone ==
    \/ \E x \in Objects, v \in {None, PyStr("test")} : SetName(x, v)
    \/ \E x \in Objects, a \in ArgOverrides, k \in KwargOverrides, t \in AttrOverrides :
          CloneWith(x, a, k, t)

SpecClone == InitClone /\ [][NextClone]_vars

CloningAttrsOf(o) == ClassGetAttr(o.cls, "__cloning_attrs__", FrozenSet({})).v

\* C4 (clone isolation): a successful clone is a new object, different from its
\* source; every overridden attribute has the override value on the clone; every
\* carry-over attribute that was not overridden reads the same on the clone as
\* on the source; and no object that existed before, the source included, has
\* changed.
CloneIsolation ==
    [][(last'.op = "_clone" /\ last'.exc = "") =>
         LET x == last'.self
             r == last'.ret.v
             attrs == last'.attrs
         IN /\ r # x
            /\ r \notin DOMAIN heap
            /\ r \in DOMAIN heap'
            /\ \A a \in DOMAIN attrs : GetAttr(heap'[r], a) = attrs[a]
            /\ \A a \in CloningAttrsOf(heap[x]) \ DOMAIN attrs :
                  GetAttr(heap'[r], a) = GetAttr(heap[x], a)
            /\ \A i \in DOMAIN heap : heap'[i] = heap[i]]_vars

\* a clone with an override of name, of a source whose carry-over attribute
\* name2 is no longer the class default
CloneIsolationWitness ==
    /\ last.op = "_clone"
    /\ last.exc = ""
    /\ "name" \in DOMAIN last.attrs
    /\ GetAttr(heap[last.self], "name2") = PyStr("bye")
    /\ GetAttr(heap[last.ret.v], "name2") = PyStr("bye")
    /\ GetAttr(heap[last.ret.v], "name") = PyStr("test")
    /\ GetAttr(heap[last.self], "name") = None

(***************************************************************************)
(* Valueable: set_value and the unary operators                            *)
(***************************************************************************)
\* hasattr(value, "__pos__") / hasattr(value, "__neg__"), and +value / -value
HasUnary(x) == x.t \in {"int", "bool"}
PyPos(x) == PyInt(x.v)
PyNeg(x) == PyInt(0 - x.v)

\* Valueable.set_value(value), without a validator; check_value resolves the
\* type set of self even when it raises
set_checked_value(h, self, value, checked) ==
    IF checked.exc # "" THEN Raise([h EXCEPT ![self] = checked.o], checked.exc)
    ELSE Clone([h EXCEPT ![self] = checked.o], self, <<>>, <<>>, [__value__ |-> value])

Valueable_set_value(h, self, value) ==
    set_checked_value(h, self, value,
                      Valueable_check_value(Valueable_set_value_type(h[self]),
                                            TypeOf(value)))

\* Valueable.__pos__ / Valueable.__neg__, value being self.__value__
Valueable_pos(h, self, value) ==
    IF HasUnary(value) THEN Clone(h, self, <<>>, <<>>, [__value__ |-> PyPos(value)])
    ELSE Raise(h, "TypeError")

\* a unary minus that applies the unary plus
neg_as_pos(h, self, value) ==
    IF HasUnary(value) THEN Clone(h, self, <<>>, <<>>, [__value__ |-> PyPos(value)])
    ELSE Raise(h, "TypeError")

Valueable_neg(h, self, value) ==
    IF HasUnary(value) THEN Clone(h, self, <<>>, <<>>, [__value__ |-> PyNeg(value)])
    ELSE Raise(h, "TypeError")

(***************************************************************************)
(* Value containers: class Sample(Cloneable, Valueable[int]) of            *)
(* test_valueable, here ValueSample, and the same class over an            *)
(* unparameterised Valueable, UntypedSample.                               *)
(***************************************************************************)
BoundValues == {PyInt(5), PyInt(10), PyBool(1), PyStr("hello"), None}

InitValue ==
    /\ classes = DefineClasses(<<"Cloneable", "Valueable", "ValueSample", "UntypedSample">>)
    /\ heap = <<>>
    /\ last = NoCall
    /\ events = <<>>
    /\ threads = <<>>

\* Sample(value)
constructed(h, c, built) ==
    IF built.exc = "" THEN Outcome(Append(h, Obj(c, built.d)), Ref(Len(h) + 1), "")
    ELSE Raise(h, built.exc)

NewSample(c, value) ==
    /\ Len(heap) < MaxValues
    /\ Perform(Called("__init__", 0, value),
               constructed(heap, c, Construct(c, <<value>>, <<>>)))

\* x.set_value(value)
SetValue(x, value) ==
    /\ Len(heap) < MaxValues
    /\ Perform(Called("set_value", x, value),
               Valueable_set_value(heap, x, value))

\* +x
Pos(x) ==
    /\ Len(heap) < MaxValues
    /\ Perform(Called("__pos__", x, None),
               Valueable_pos(heap, x, GetAttr(heap[x], "__value__")))

\* -x
Neg(x) ==
    /\ Len(heap) < MaxValues
    /\ Perform(Called("__neg__", x, None),
               Valueable_neg(heap, x, GetAttr(heap[x], "__value__")))

NextValue ==
    \/ \E c \in {"ValueSample", "UntypedSample"}, v \in BoundValues : NewSample(c, v)
    \/ \E x \in Objects, v \in BoundValues : SetValue(x, v)
    \/ \E x \in Objects : Pos(x)
    \/ \E x \in Objects : Neg(x)

SpecValue == InitValue /\ [][NextValue]_vars

ValueOf(o) == GetAttr(o, "value")

\* the declared type set of a container, once resolved (None: no check)
DeclaredTypes(o) == GetAttr(Valueable_set_value_type(o), "__value_type__")

(***************************************************************************)
(* Pathable: stepping forward                                              *)
(***************************************************************************)
\* isinstance(other, Pathable)
IsPathable(h, other) == IsRef(other) /\ IsSubclass(h[other.v].cls, "Pathable")

\* a check that Field does not override
check_pathable_of_mixin(h, cls, other, direction) ==
    IF ~IsPathable(h, other) THEN "InvalidPathError" ELSE ""

\* cls.check_pathable(other, direction): the exception it raises.  Field
\* overrides the check of Pathable, which it calls first
check_pathable(h, cls, other, direction) ==
    IF ~IsPathable(h, other) THEN "InvalidPathError"
    ELSE IF /\ IsSubclass(cls, "Field")
            /\ direction = "forward"
            /\ IsSubclass(h[other.v].cls, "BaseNodeModel")
    THEN "InvalidPathError"
    ELSE ""

\* a step that forgets where it came from
step_without_backward(current, backward, forward) ==
    [__current__ |-> current, __backward__ |-> None, __forward__ |-> forward]

\* the three attributes a step forward overrides on the clone
step(current, backward, forward) ==
    [__current__ |-> current, __backward__ |-> backward, __forward__ |-> forward]

\* a step forward that overwrites the forward segment of a node that has one
rshift_overwriting(h, self, other, forward) ==
    Clone(h, self, <<>>, <<>>,
          step(Ref(self), GetAttr(h[self], "__backward__"), other))

rshift_attrs(h, self, other, forward) ==
    IF Truthy(forward)
    THEN Clone(h, self, <<>>, <<>>, step(forward, Ref(self), other))
    ELSE Clone(h, self, <<>>, <<>>,
               step(Ref(self), GetAttr(h[self], "__backward__"), other))

\* a step forward that links self itself instead of a clone
rshift_in_place(h, self, other) ==
    IF ~IsPathable(h, other) THEN Raise(h, "InvalidPathError")
    ELSE Outcome([h EXCEPT ![self] = SetAttr(SetAttr(h[self], "__current__", Ref(self)),
                                             "__forward__", other)],
                 Ref(self), "")

\* Pathable.__rshift__(other)
Pathable_rshift(h, self, other) ==
    IF check_pathable(h, h[self].cls, other, "forward") # ""
    THEN Raise(h, check_pathable(h, h[self].cls, other, "forward"))
    ELSE rshift_attrs(h, self, other, GetAttr(h[self], "__forward__"))

\* Pathable.__lshift__(other)
Pathable_lshift(h, self, other) == Raise(h, "NotImplementedError")

\* obj = cls(); obj.__current__ = current; obj.__forward__ = forward;
\* obj.__backward__ = backward
path_of(h, cls, built, current, forward, backward) ==
    IF built.exc # "" THEN Raise(h, built.exc)
    ELSE Outcome(Append(h, Obj(cls, step(current, backward, forward) @@ built.d)),
                 Ref(Len(h) + 1), "")

\* the first exception of the checks of create_path: current always, forward
\* and backward "if not forward" / "if not backward"
create_path_exc(h, cls, current, forward, backward) ==
    IF check_pathable(h, cls, current, "current") # ""
    THEN check_pathable(h, cls, current, "current")
    ELSE IF ~Truthy(forward) /\ check_pathable(h, cls, forward, "forward") # ""
    THEN check_pathable(h, cls, forward, "forward")
    ELSE IF ~Truthy(backward) THEN check_pathable(h, cls, backward, "backward")
    ELSE ""

\* Pathable.create_path(current, forward=forward, backward=backward), called
\* on class cls
create_path(h, cls, current, forward, backward) ==
    IF create_path_exc(h, cls, current, forward, backward) # ""
    THEN Raise(h, create_path_exc(h, cls, current, forward, backward))
    ELSE path_of(h, cls, Construct(cls, <<>>, <<>>), current, forward, backward)

\* Pathable.has_path
has_path(o) == Truthy(PyOr(GetAttr(o, "__forward__"), GetAttr(o, "__backward__")))

(***************************************************************************)
(* Paths: class Sample1(Cloneable, Pathable) and Sample2 of test_pathable, *)
(* here PathSample1 and PathSample2, and the model classes of              *)
(* test_make_path_for_model_field.  The objects are three bare nodes, one  *)
(* of each sample class and the field handle SampleModel2.link_to, and two *)
(* model instances, of which the second is of a model class that mixes     *)
(* Pathable in.  Neither model instance is Cloneable: steps are taken from *)
(* the nodes and to any object.                                            *)
(***************************************************************************)

InitPath ==
    /\ classes = DefineClasses(<<"Cloneable", "Pathable", "Valueable", "PathSample1",
                                 "PathSample2", "Field", "BaseNodeModel", "SampleModel",
                                 "PathableModel">>)
    /\ heap = <<Obj("PathSample1", <<>>), Obj("PathSample2", <<>>),
                Obj("Field", [name |-> PyStr("link_to"),
                              field_info |-> [t |-> "FieldInfo", v |-> "link_to"]]),
                Obj("SampleModel", [name |-> PyStr("hello")]),
                Obj("PathableModel", [name |-> PyStr("world")])>>
    /\ last = NoCall
    /\ events = <<>>
    /\ threads = <<>>

PathNodes == {i \in Objects : IsSubclass(heap[i].cls, "Cloneable")}
LinkedNodes == {i \in PathNodes : has_path(heap[i])}

\* x >> other
Rshift(x, other) ==
    Perform(Called("__rshift__", x, other), Pathable_rshift(heap, x, other))

\* x << other
Lshift(x, other) ==
    Perform(Called("__lshift__", x, other), Pathable_lshift(heap, x, other))

\* steps are taken while fewer than MaxPaths nodes are linked, and a program
\* ends when an exception is raised
NextPath ==
    /\ last.exc = ""
    /\ Cardinality(LinkedNodes) < MaxPaths
    /\ \/ \E x \in PathNodes, other \in {Ref(i) : i \in Objects} \cup {PyInt(1)} :
             Rshift(x, other)
       \/ \E x \in PathNodes : Lshift(x, Ref(x))

SpecPath == InitPath /\ [][NextPath]_vars

Current(o) == GetAttr(o, "__current__")
Forward(o) == GetAttr(o, "__forward__")
Backward(o) == GetAttr(o, "__backward__")
IsBare(o) == Current(o) = None /\ Forward(o) = None /\ Backward(o) = None

\* a bare node stepped forward to a bare node: p1 = a >> b
IsFirstStep(h, o) ==
    /\ Backward(o) = None
    /\ IsRef(Current(o)) /\ IsBare(h[Current(o).v])
    /\ IsRef(Forward(o)) /\ IsBare(h[Forward(o).v])

\* the step x >> other just taken from a bare x gave current = x, forward = other
\* and no backward
FirstStepTaken ==
    (IsBare(heap[last'.self]) /\ IsBare(heap[last'.other.v])) =>
        /\ Current(heap'[last'.ret.v]) = Ref(last'.self)
        /\ Forward(heap'[last'.ret.v]) = last'.other
        /\ Backward(heap'[last'.ret.v]) = None

\* C7 (path chain extension, as amended): for bare nodes a, b, c, p1 = a >> b has
\* current = a, forward = b and no backward; p2 = p1 >> c has current = b,
\* forward = c and backward = p1, the node the step was taken from, whose
\* current is a and whose forward is still b.
PathChainExtension ==
    [][(last'.op = "__rshift__" /\ last'.exc = "") =>
         /\ FirstStepTaken
         /\ (IsFirstStep(heap, heap[last'.self]) /\ IsBare(heap[last'.other.v])) =>
               /\ Current(heap'[last'.ret.v]) = Forward(heap[last'.self])
               /\ Forward(heap'[last'.ret.v]) = last'.other
               /\ Backward(heap'[last'.ret.v]) = Ref(last'.self)
               /\ heap'[last'.self] = heap[last'.self]]_vars

\* C7 as claimed: the backward of p2 = p1 >> c is a itself
PathChainExtensionAsClaimed ==
    [][(last'.op = "__rshift__" /\ last'.exc = "") =>
         /\ FirstStepTaken
         /\ (IsFirstStep(heap, heap[last'.self]) /\ IsBare(heap[last'.other.v])) =>
               /\ Current(heap'[last'.ret.v]) = Forward(heap[last'.self])
               /\ Forward(heap'[last'.ret.v]) = last'.other
               /\ Backward(heap'[last'.ret.v]) = Current(heap[last'.self])]_vars

\* p1 = a >> b and p2 = p1 >> c for the bare nodes a = 1, b = 2, c = 3
PathChainExtensionWitness ==
    /\ Len(heap) = 7
    /\ last.op = "__rshift__" /\ last.exc = ""
    /\ last.self = 6 /\ last.other = Ref(3) /\ last.ret = Ref(7)
    /\ IsBare(heap[1]) /\ IsBare(heap[2]) /\ IsBare(heap[3])
    /\ Current(heap[6]) = Ref(1) /\ Forward(heap[6]) = Ref(2) /\ Backward(heap[6]) = None
    /\ Current(heap[7]) = Ref(2) /\ Forward(heap[7]) = Ref(3) /\ Backward(heap[7]) = Ref(6)

\* has_path of every node is true exactly when its forward or its backward is set
HasPathIffLinked(h) ==
    \A i \in DOMAIN h :
        IsSubclass(h[i].cls, "Pathable") =>
            (has_path(h[i]) <=> (Forward(h[i]) # None \/ Backward(h[i]) # None))

\* C8 (stepping forward never mutates its operands): a step x >> other, whether
\* it succeeds or fails, leaves every existing node, x and other included, with
\* the attributes it had, so that bare operands still have no path; the node a
\* successful step returns is new and has a path; and has_path of every node
\* is true exactly when its forward or its backward is set.
StepForwardPure ==
    [][last'.op = "__rshift__" =>
         /\ \A i \in DOMAIN heap : heap'[i] = heap[i]
         /\ \A i \in DOMAIN heap : IsBare(heap[i]) => ~has_path(heap'[i])
         /\ last'.exc = "" =>
               /\ last'.ret.v \notin DOMAIN heap
               /\ has_path(heap'[last'.ret.v])
         /\ HasPathIffLinked(heap) /\ HasPathIffLinked(heap')]_vars

\* p = a >> b for bare a and b: p has a path, a and b have none
StepForwardPureWitness ==
    /\ last.op = "__rshift__" /\ last.exc = ""
    /\ IsBare(heap[last.self]) /\ IsBare(heap[last.other.v])
    /\ ~has_path(heap[last.self]) /\ ~has_path(heap[last.other.v])
    /\ last.self # last.other.v
    /\ has_path(heap[last.ret.v])
    /\ Current(heap[last.ret.v]) = Ref(last.self)

\* C5 (value type enforcement): set_value(v) on a container whose declared
\* type set is non-empty fails with TypeError exactly when type(v) is not a
\* member of the set, and then no container is created and every container
\* keeps its value; otherwise, and always when no type set is declared, it
\* succeeds and returns a new container, distinct from the original, whose
\* value is v, while the original keeps its previous value.
ValueTypeEnforcement ==
    [][last'.op = "set_value" =>
         LET x == last'.self
             v == last'.other
             T == DeclaredTypes(heap[x])
         IN /\ \A i \in DOMAIN heap : ValueOf(heap'[i]) = ValueOf(heap[i])
            /\ IF Truthy(T) /\ TypeOf(v) \notin T.v
               THEN last'.exc = "TypeError" /\ DOMAIN heap' = DOMAIN heap
               ELSE /\ last'.exc = ""
                    /\ last'.ret.v # x
                    /\ last'.ret.v \notin DOMAIN heap
                    /\ heap'[last'.ret.v].cls = heap[x].cls
                    /\ ValueOf(heap'[last'.ret.v]) = v]_vars

\* set_value(True) was rejected by a container over {int} that holds 10, after
\* set_value(5) on a container over {int} had produced a container holding 5
ValueTypeEnforcementWitness ==
    /\ last.op = "set_value"
    /\ last.exc = "TypeError"
    /\ last.other = PyBool(1)
    /\ heap[last.self].cls = "ValueSample"
    /\ DeclaredTypes(heap[last.self]) = FrozenSet({"int"})
    /\ ValueOf(heap[last.self]) = PyInt(10)
    /\ \E i \in DOMAIN heap : i # last.self /\ ValueOf(heap[i]) = PyInt(5)

\* C6 (unary round trip): -x on a container x holding a number v succeeds and
\* returns a container, distinct from x, holding -v, and every container that
\* existed, x included, is as it was; when x is itself the result of negating
\* a container y in the step before, the value of -x equals the value of y and
\* -x is distinct from y as well.
UnaryRoundTrip ==
    [][(last'.op = "__neg__" /\ HasUnary(ValueOf(heap[last'.self]))) =>
         LET x == last'.self
             r == last'.ret.v
         IN /\ last'.exc = ""
            /\ r # x
            /\ r \notin DOMAIN heap
            /\ ValueOf(heap'[r]) = PyNeg(ValueOf(heap[x]))
            /\ \A i \in DOMAIN heap : heap'[i] = heap[i]
            /\ (last.op = "__neg__" /\ last.exc = "" /\ last.ret = Ref(x)) =>
                  /\ PyEq(ValueOf(heap'[r]), ValueOf(heap[last.self]))
                  /\ r # last.self]_vars

\* -(-x) for x holding 5: three containers holding 5, -5 and 5
UnaryRoundTripWitness ==
    /\ last.op = "__neg__"
    /\ last.exc = ""
    /\ Len(heap) = 3
    /\ last.self = 2
    /\ last.ret = Ref(3)
    /\ ValueOf(heap[1]) = PyInt(5)
    /\ ValueOf(heap[2]) = PyInt(0 - 5)
    /\ ValueOf(heap[3]) = PyInt(5)

(***************************************************************************)
(* Compositable, CompositableItem and Composition                          *)
(***************************************************************************)
\* isinstance(x, Compositable) / isinstance(x, Composition)
IsCompositable(h, x) == IsRef(x) /\ IsSubclass(h[x.v].cls, "Compositable")
IsComposition(h, x) == IsRef(x) /\ IsSubclass(h[x.v].cls, "Composition")

\* cls.__members__ in definition order, for the enumerations built on
\* nodeedge.types.enum: EnumOperand, EnumLookupExpression and the flag
\* Sample of test_extended_enum (A, B, C with the values of Auto)
Members(cls) ==
    CASE cls = "EnumOperand" ->
            <<[name |-> "AND", value |-> PyStr("and"), member |-> AND],
              [name |-> "OR", value |-> PyStr("or"), member |-> OR]>>
      [] cls = "EnumLookupExpression" ->
            LET names == <<"NOT", "EQUAL", "IN", "GE", "GT", "LE", "LT", "EXISTS", "LIKE", "ILIKE">>
            IN  [i \in DOMAIN names |->
                    [name |-> names[i], value |-> PyInt(Lookup(names[i]).v),
                     member |-> Lookup(names[i])]]
      [] cls = "Sample" ->
            <<[name |-> "A", value |-> PyInt(1), member |-> [t |-> "Sample", v |-> 1]],
              [name |-> "B", value |-> PyInt(2), member |-> [t |-> "Sample", v |-> 2]],
              [name |-> "C", value |-> PyInt(4), member |-> [t |-> "Sample", v |-> 4]]>>
      [] OTHER -> <<>>

\* the entries of cls.__members__ that satisfy a test
MembersWhere(cls, Test(_)) == SelectSeq(Members(cls), Test)

\* FindableEnum.find_member(member) on the enumeration cls: a member is
\* replaced by its name, a str is looked up as cls[name], an int is compared
\* with the values in definition order
find_member(cls, member) ==
    LET named == IF Members(member.t) # <<>>
                 THEN LET own == MembersWhere(member.t, LAMBDA e : e.member = member)
                      IN  PyStr(IF own = <<>> THEN "" ELSE own[1].name)
                 ELSE member
        by_name == MembersWhere(cls, LAMBDA e : named.t = "str" /\ e.name = named.v)
        by_value == MembersWhere(cls, LAMBDA e : /\ named.t \in {"int", "bool"}
                                                /\ e.value.t = "int"
                                                /\ e.value.v = named.v)
    IN  CASE named.t = "str" ->
                IF by_name # <<>> THEN [exc |-> "", ret |-> by_name[1].member]
                ELSE [exc |-> "KeyError", ret |-> None]
          [] named.t \in {"int", "bool"} ->
                IF by_value # <<>> THEN [exc |-> "", ret |-> by_value[1].member]
                ELSE [exc |-> "KeyError", ret |-> None]
          [] OTHER -> [exc |-> "TypeError", ret |-> None]

\* EnumOperand.find_member(member): the exception it raises ("" when it
\* returns a member, which is then a member of EnumOperand)
EnumOperand_find_member(member) == find_member("EnumOperand", member).exc

\* Composition.check_composition_args(left, operand, right)
check_composition_args(h, left, operand, right) ==
    IF ~IsCompositable(h, left) \/ ~IsCompositable(h, right) THEN "TypeError"
    ELSE EnumOperand_find_member(operand)

\* a factory that also writes the operand to the left node
composed_in_place(h, cls, left, operand, right, built) ==
    IF built.exc # "" THEN Raise(h, built.exc)
    ELSE Outcome(Append([h EXCEPT ![left.v] = Obj(@.cls, [__operand__ |-> operand] @@ @.d)],
                        Obj(cls, [__left__ |-> left, __right__ |-> right,
                                  __operand__ |-> operand] @@ built.d)),
                 Ref(Len(h) + 1), "")

\* obj = cls(); obj.__left__ = left; obj.__right__ = right; obj.__operand__ = operand
composed(h, cls, left, operand, right, built) ==
    IF built.exc # "" THEN Raise(h, built.exc)
    ELSE Outcome(Append(h, Obj(cls, [__left__ |-> left, __right__ |-> right,
                                     __operand__ |-> operand] @@ built.d)),
                 Ref(Len(h) + 1), "")

checked_composition(h, cls, left, operand, right, exc) ==
    IF exc # "" THEN Raise(h, exc)
    ELSE composed(h, cls, left, operand, right, Construct(cls, <<>>, <<>>))

\* a factory that stores the operands the other way round
create_composition_swapped(h, cls, left, operand, right) ==
    checked_composition(h, cls, right, operand, left,
                        check_composition_args(h, left, operand, right))

\* Composition.create_composition(left, operand, right), called on class cls
create_composition(h, cls, left, operand, right) ==
    checked_composition(h, cls, left, operand, right,
                        check_composition_args(h, left, operand, right))

\* CompositableItem.__and__ / __or__, as operand tells
CompositableItem_combine(h, self, operand, other) ==
    IF ~IsCompositable(h, other) THEN Raise(h, "TypeError")
    ELSE create_composition(h, GetAttr(h[self], "__compositable_class__").v,
                            Ref(self), operand, other)

\* Composition.__and__ / __or__, as operand tells
Composition_combine(h, self, operand, other) ==
    IF ~IsCompositable(h, other) THEN Raise(h, "TypeError")
    ELSE Clone(h, self, [left |-> Ref(self), operand |-> operand, right |-> other],
               <<>>, <<>>)

\* self & other, self | other: the method of the class of self
Combine(h, self, operand, other) ==
    IF IsSubclass(h[self].cls, "CompositableItem")
    THEN CompositableItem_combine(h, self, operand, other)
    ELSE Composition_combine(h, self, operand, other)

(***************************************************************************)
(* Composition.map_composition.  A traversal state is the nonlocal depth   *)
(* and the calls made to the listener so far.                              *)
(***************************************************************************)
HookCall(hook, item, operand, direction, depth) ==
    [hook |-> hook, item |-> item, operand |-> operand, direction |-> direction,
     depth |-> depth]

Abs(n) == IF n < 0 THEN 0 - n ELSE n

\* int(isinstance(x, Composition))
IntIsComposition(h, x) == IF IsComposition(h, x) THEN 1 ELSE 0

call_hook(st, call) == [st EXCEPT !.calls = Append(@, call)]

\* _listener.on_composite(None, operand, direction, each_depth), made before a
\* right child is visited
operator_call(st, operand, direction, each_depth, wanted) ==
    IF wanted /\ direction = "right"
    THEN call_hook(st, HookCall("on_composite", None, operand, direction, each_depth))
    ELSE st

\* the branch of a leaf
traverse_item(st, item, direction, operand, each_depth) ==
    call_hook(operator_call(st, operand, direction, each_depth, Truthy(operand)),
              HookCall("on_composite", item, None, direction, each_depth))

\* depth -= 1; _listener.on_begin_wrap(each_depth, item)
begin_wrap(st, item, each_depth) ==
    call_hook([st EXCEPT !.depth = @ - 1],
              HookCall("on_begin_wrap", item, None, "", each_depth))

finish_wrap(st, item, each_depth) ==
    call_hook(st, HookCall("on_finish_wrap", item, None, "", each_depth))

RECURSIVE traverse(_, _, _, _, _, _)
\* the branch of a Composition; left_depth and right_depth are computed
\* before any child is visited
traverse_children(h, st, item, operand, left, right, left_depth, right_depth) ==
    traverse(h, traverse(h, st, left, "left", operand, left_depth),
             right, "right", operand, right_depth)

\* a traversal that injects no operator before a right child that is a Composition
traverse_composition_silent(h, st, item, direction, operand, each_depth, left, right) ==
    finish_wrap(traverse_children(h, begin_wrap(st, item, each_depth),
                                  item, GetAttr(h[item.v], "operand"), left, right,
                                  st.depth - IntIsComposition(h, left),
                                  st.depth - IntIsComposition(h, right)),
                item, each_depth)

traverse_composition(h, st, item, direction, operand, each_depth, left, right) ==
    finish_wrap(traverse_children(h,
                                  begin_wrap(operator_call(st, operand, direction,
                                                           each_depth, TRUE),
                                             item, each_depth),
                                  item, GetAttr(h[item.v], "operand"), left, right,
                                  st.depth - IntIsComposition(h, left),
                                  st.depth - IntIsComposition(h, right)),
                item, each_depth)

\* _traverse(item, direction, operand, each_depth)
traverse(h, st, item, direction, operand, each_depth) ==
    IF ~Truthy(item) THEN st
    ELSE IF ~IsComposition(h, item) /\ IsCompositable(h, item)
    THEN traverse_item(st, item, direction, operand, Abs(each_depth))
    ELSE traverse_composition(h, st, item, direction, operand, Abs(each_depth),
                              GetAttr(h[item.v], "__left__"),
                              GetAttr(h[item.v], "__right__"))

\* _listener = listener or self.__listener__ or _default_composition_listener
chosen_listener(h, self, listener) ==
    PyOr(PyOr(listener, GetAttr(h[self], "__listener__")), Listener("default"))

\* the calls that reach the listener of the tests; the default listener
\* ignores its calls
map_composition(h, self, listener) ==
    IF chosen_listener(h, self, listener) = Listener("listener")
    THEN traverse(h, [depth |-> 0, calls |-> <<>>], Ref(self), "", None, 0).calls
    ELSE <<>>

(***************************************************************************)
(* Compositions: class CompositedItem(Composition) and the frozen          *)
(* dataclass Item(CompositableItem[str, CompositedItem]) of the tests of   *)
(* map_composition, and the same pair with a composite class that is       *)
(* Cloneable as well.  A program builds one expression over four leaves    *)
(* (every node is an operand once), maps it once, and ends when an         *)
(* exception is raised.                                                    *)
(***************************************************************************)
LeafNames == <<"hello", "world", "lorem", "ipsum">>

Leaf(c, name) == Obj(c, Construct(c, <<PyStr(name)>>, <<>>).d)

InitComp ==
    /\ classes = DefineClasses(<<"Cloneable", "Compositable", "CompositableItem",
                                 "Composition", "CompositedItem", "CloneableComposited",
                                 "Item", "ItemOfCloneable">>)
    /\ \E c \in {"Item", "ItemOfCloneable"} :
          heap = [i \in DOMAIN LeafNames |-> Leaf(c, LeafNames[i])]
    /\ last = NoCall
    /\ events = <<>>
    /\ threads = <<>>

Compositions == {i \in Objects : IsSubclass(heap[i].cls, "Composition")}
Children == {GetAttr(heap[i], "__left__") : i \in Compositions}
                \cup {GetAttr(heap[i], "__right__") : i \in Compositions}
Roots == LET children == Children IN {i \in Objects : Ref(i) \notin children}
CompOperands == {Ref(i) : i \in Roots} \cup {PyInt(1)}

Running == last.exc = "" /\ events = <<>>

\* x & other, x | other
Combining(x, operand, other) ==
    /\ Running
    /\ Len(heap) < Len(LeafNames) + MaxCompositions
    /\ Ref(x) # other
    /\ Perform(Called(IF operand = AND THEN "__and__" ELSE "__or__", x, other),
               Combine(heap, x, operand, other))

\* cls.create_composition(left, operand, right)
CreateComposition(cls, left, operand, right) ==
    /\ Running
    /\ Len(heap) < Len(LeafNames) + MaxCompositions
    /\ left # right
    /\ Perform([Called("create_composition", 0, None) EXCEPT
                    !.args = [cls |-> cls, left |-> left, operand |-> operand,
                              right |-> right]],
               create_composition(heap, cls, left, operand, right))

\* x.map_composition(listener)
MapComposition(x, listener) ==
    /\ Running
    /\ events' = events \o map_composition(heap, x, listener)
    /\ last' = Called("map_composition", x, listener)
    /\ UNCHANGED <<classes, heap, threads>>

NextComp ==
    \/ \E x \in Roots, operand \in {AND, OR}, other \in CompOperands :
          Combining(x, operand, other)
    \/ \E left \in CompOperands, right \in CompOperands,
          operand \in {AND, PyStr("AND"), PyStr("xor"), PyInt(1), Lookup("EQUAL"), None} :
          \* the operands that are not members are tried on the first two leaves
          /\ operand \in {AND, PyStr("xor")} \/ (left = Ref(1) /\ right = Ref(2))
          /\ CreateComposition(GetAttr(heap[1], "__compositable_class__").v,
                               left, operand, right)
    \/ \E x \in Compositions : MapComposition(x, None)

SpecComp == InitComp /\ [][NextComp]_vars

Left(o) == GetAttr(o, "left")
Right(o) == GetAttr(o, "right")
Operand(o) == GetAttr(o, "operand")
IsLeaf(h, x) == IsCompositable(h, x) /\ ~IsComposition(h, x)
OperandOf(op) == IF op = "__and__" THEN AND ELSE OR

\* the composite class a leaf class declares
DeclaredComposite(c) == IF c = "Item" THEN "CompositedItem" ELSE "CloneableComposited"

\* a tree of Composites and leaves: every Composite has two such trees below it
RECURSIVE IsTree(_, _)
IsTree(h, x) ==
    \/ IsLeaf(h, x)
    \/ /\ IsComposition(h, x)
       /\ IsTree(h, Left(h[x.v]))
       /\ IsTree(h, Right(h[x.v]))

\* the hook calls of a visit, without their depth, as the order of the
\* traversal is defined
RECURSIVE Visit(_, _, _, _)
Visit(h, x, direction, parent_operand) ==
    (IF direction = "right"
     THEN <<[hook |-> "on_composite", item |-> None, operand |-> parent_operand,
             direction |-> "right"]>>
     ELSE <<>>)
    \o (IF IsLeaf(h, x)
        THEN <<[hook |-> "on_composite", item |-> x, operand |-> None,
                direction |-> direction]>>
        ELSE <<[hook |-> "on_begin_wrap", item |-> x, operand |-> None, direction |-> ""]>>
             \o Visit(h, Left(h[x.v]), "left", Operand(h[x.v]))
             \o Visit(h, Right(h[x.v]), "right", Operand(h[x.v]))
             \o <<[hook |-> "on_finish_wrap", item |-> x, operand |-> None,
                   direction |-> ""]>>)

WithoutDepth(calls) ==
    [i \in DOMAIN calls |->
        [hook |-> calls[i].hook, item |-> calls[i].item, operand |-> calls[i].operand,
         direction |-> calls[i].direction]]

\* what the listener of the tests appends for a call
Token(call) ==
    CASE call.hook = "on_begin_wrap" -> PyStr("(")
      [] call.hook = "on_finish_wrap" -> PyStr(")")
      [] OTHER -> IF Truthy(call.item) THEN call.item ELSE call.operand

Tokens(calls) == [i \in DOMAIN calls |-> Token(calls[i])]

\* the tokens of an expression: ( left operator right )
RECURSIVE Infix(_, _)
Infix(h, x) ==
    IF IsLeaf(h, x) THEN <<x>>
    ELSE <<PyStr("(")>> \o Infix(h, Left(h[x.v])) \o <<Operand(h[x.v])>>
         \o Infix(h, Right(h[x.v])) \o <<PyStr(")")>>

\* C1 (traversal order): map_composition on a tree of Composites and leaves
\* calls the hooks in the order defined recursively by: a leaf gives
\* on_composite(leaf, None, direction, depth); a Composite gives on_begin_wrap,
\* the visit of its left child, the visit of its right child, on_finish_wrap;
\* and the visit of a right child is preceded by exactly one
\* on_composite(None, parent operand, "right", depth), with the depth of the call
\* that follows it.  The tokens the listener collects are the infix form
\* ( left operator right ) of the tree.
TraversalOrder ==
    [][(last'.op = "map_composition" /\ IsTree(heap, Ref(last'.self))) =>
         /\ WithoutDepth(events') = Visit(heap, Ref(last'.self), "", None)
         /\ Tokens(events') = Infix(heap, Ref(last'.self))
         /\ \A i \in DOMAIN events' :
               (events'[i].item = None /\ events'[i].hook = "on_composite") =>
                   /\ i < Len(events')
                   /\ events'[i + 1].depth = events'[i].depth
                   /\ events'[i + 1].item # None
         /\ heap' = heap]_vars

\* a | b & (c | d) was mapped: ( a OR ( b AND ( c OR d ) ) )
TraversalOrderWitness ==
    /\ last.op = "map_composition"
    /\ Tokens(events) = <<PyStr("("), Ref(1), OR, PyStr("("), Ref(2), AND, PyStr("("),
                          Ref(3), OR, Ref(4), PyStr(")"), PyStr(")"), PyStr(")")>>

\* C2 (leaf combination): for a leaf x and a composable y, x & y and x | y
\* return a new Composite, an instance of the composite class the leaf
\* declares, with left = x, right = y and operand AND / OR respectively.
LeafCombination ==
    [][(/\ last'.op \in {"__and__", "__or__"}
        /\ IsLeaf(heap, Ref(last'.self))
        /\ IsCompositable(heap, last'.other)) =>
         /\ last'.exc = ""
         /\ last'.ret.v \notin DOMAIN heap
         /\ heap'[last'.ret.v].cls = DeclaredComposite(heap[last'.self].cls)
         /\ IsComposition(heap', last'.ret)
         /\ Left(heap'[last'.ret.v]) = Ref(last'.self)
         /\ Right(heap'[last'.ret.v]) = last'.other
         /\ Operand(heap'[last'.ret.v]) = OperandOf(last'.op)
         /\ \A i \in DOMAIN heap : heap'[i] = heap[i]]_vars

\* t = a | b & (c | d) for the leaves a = 1, b = 2, c = 3, d = 4
LeafCombinationWitness ==
    /\ Len(heap) = 7
    /\ last.op = "__or__" /\ last.self = 1 /\ last.ret = Ref(7)
    /\ Left(heap[7]) = Ref(1) /\ Operand(heap[7]) = OR /\ Right(heap[7]) = Ref(6)
    /\ Left(heap[6]) = Ref(2) /\ Operand(heap[6]) = AND /\ Right(heap[6]) = Ref(5)
    /\ Left(heap[5]) = Ref(3) /\ Operand(heap[5]) = OR /\ Right(heap[5]) = Ref(4)
    /\ \A i \in 1..4 : IsLeaf(heap, Ref(i))

\* C3 (Composite on the left): for a Composite c and a composable x, c & x and
\* c | x do what create_composition(c, AND / OR, x) does: they return a new
\* Composite whose left is c, whose right is x and whose operand is AND / OR.
CompositeCombination ==
    [][(/\ last'.op \in {"__and__", "__or__"}
        /\ IsComposition(heap, Ref(last'.self))
        /\ IsCompositable(heap, last'.other)) =>
         /\ last'.exc = ""
         /\ last'.ret.v \notin DOMAIN heap
         /\ heap' = create_composition(heap, heap[last'.self].cls, Ref(last'.self),
                                       OperandOf(last'.op), last'.other).heap
         /\ Left(heap'[last'.ret.v]) = Ref(last'.self)
         /\ Right(heap'[last'.ret.v]) = last'.other
         /\ Operand(heap'[last'.ret.v]) = OperandOf(last'.op)]_vars

(***************************************************************************)
(* Filterable                                                              *)
(***************************************************************************)
\* a | b on the values of two flags
RECURSIVE BitOr(_, _)
BitOr(a, b) ==
    IF a = 0 THEN b
    ELSE IF b = 0 THEN a
    ELSE (IF a % 2 = 1 \/ b % 2 = 1 THEN 1 ELSE 0) + 2 * BitOr(a \div 2, b \div 2)

FlagOr(a, b) == LookupExpression(BitOr(a.v, b.v))

\* the attributes of a member of EnumLookupExpression: what the class and its
\* bases define, and name and value
LookupAttrs ==
    {"allowed_negate_expr", "is_negate_expr", "is_func_lookup", "is_in_lookup",
     "is_equal_lookup", "can_jsonable_as_value", "can_subquery_as_value",
     "find_member", "as_jsonable_value", "name", "value"}

\* EnumLookupExpression.allowed_negate_expr()
allowed_negate_expr == {Lookup(n) : n \in {"EQUAL", "IN", "EXISTS", "LIKE", "ILIKE"}}

\* lookup.method(): the exception of the attribute lookup, or what the call returns
call_lookup(lookup, method) ==
    IF method \notin LookupAttrs THEN [exc |-> "AttributeError", ret |-> None]
    ELSE IF method = "allowed_negate_expr"
    THEN [exc |-> "", ret |-> FrozenSet(allowed_negate_expr)]
    ELSE [exc |-> "", ret |-> None]

\* Filterable.__invert__ once self.__lookup__.can_negate_expr() is evaluated
invert(h, self, lookup, can) ==
    IF can.exc # "" THEN Raise(h, can.exc)
    ELSE IF ~Truthy(can.ret) THEN Raise(h, "TypeError")
    ELSE Clone(h, self, <<>>, <<>>, [__lookup__ |-> FlagOr(lookup, Lookup("NOT"))])

\* Filterable.__invert__ / not_
Filterable_invert(h, self) ==
    invert(h, self, GetAttr(h[self], "__lookup__"),
           call_lookup(GetAttr(h[self], "__lookup__"), "can_negate_expr"))

\* Filterable.exists
Filterable_exists(h, self) == Clone(h, self, <<>>, <<>>, [__lookup__ |-> Lookup("EXISTS")])

\* self._clone(attrs={"__lookup__": lookup}).set_value(other)
set_value_of_clone(cloned, value) ==
    IF cloned.exc # "" THEN cloned
    ELSE Valueable_set_value(cloned.heap, cloned.ret.v, value)

\* binding the value on self, the lookup left as it is
lookup_unset(h, self, lookup, other) == Valueable_set_value(h, self, other)

\* Filterable.equal, __lt__, __le__, __gt__, __ge__, like, ilike
Filterable_lookup(h, self, lookup, other) ==
    set_value_of_clone(Clone(h, self, <<>>, <<>>, [__lookup__ |-> lookup]), other)

\* the elements __check_value_for_in_expr checks: the value itself unless it
\* has __iter__; a str iterates over its characters, which are strs
InElementTypes(value) ==
    IF value.t = "str" THEN (IF value.v = "" THEN {} ELSE {"str"})
    ELSE IF value.t = "tuple" THEN {TypeOf(value.v[i]) : i \in DOMAIN value.v}
    ELSE {TypeOf(value)}

\* Filterable.__check_value_for_in_expr(value), bound to self: check_value
\* resolves the type set of self on its first call
check_value_for_in_expr(o, types) ==
    IF types = {} THEN [o |-> o, exc |-> ""]
    ELSE [o |-> Valueable_set_value_type(o),
          exc |-> IF \E type \in types : value_type_error(Valueable_set_value_type(o), type) # ""
                  THEN "TypeError" ELSE ""]

\* cloned.set_value(value, validator=self.__check_value_for_in_expr)
set_validated_value(cloned, self, value, checked) ==
    IF cloned.exc # "" THEN cloned
    ELSE IF checked.exc # ""
    THEN Raise([cloned.heap EXCEPT ![self] = checked.o], checked.exc)
    ELSE Clone([cloned.heap EXCEPT ![self] = checked.o], cloned.ret.v, <<>>, <<>>,
               [__value__ |-> value])

\* Filterable.in_
Filterable_in(h, self, other) ==
    set_validated_value(Clone(h, self, <<>>, <<>>, [__lookup__ |-> Lookup("IN")]), self, other,
                        check_value_for_in_expr(h[self], InElementTypes(other)))

(***************************************************************************)
(* Filters: class Filter(Filterable[Field], Valueable, Cloneable,          *)
(* CompositableItem[Field, CompositedItem]) of test_filterable, whose      *)
(* values are unchecked because Valueable is not parameterised, and a      *)
(* filter class TypedFilter(Filterable[int], Valueable[int], Cloneable)    *)
(* whose values are checked.                                               *)
(***************************************************************************)
FilterValues == {PyInt(5), PyStr("hello")}

InitFilter ==
    /\ classes = DefineClasses(<<"Cloneable", "Valueable", "Compositable", "CompositableItem",
                                 "Composition", "CompositedItem", "Filterable", "Filter",
                                 "TypedFilter">>)
    /\ \E c \in {"Filter", "TypedFilter"} : heap = <<Obj(c, Construct(c, <<>>, <<>>).d)>>
    /\ last = NoCall
    /\ events = <<>>
    /\ threads = <<>>

\* x.equal(other), x < other, ..., x.ilike(other): two objects are created
LookupValue(x, lookup, other) ==
    /\ Len(heap) + 2 <= MaxFilterObjects
    /\ Perform([Called("lookup", 0, None) EXCEPT
                    !.args = [self |-> x, lookup |-> lookup, other |-> other]],
               Filterable_lookup(heap, x, lookup, other))

\* x.in_(other)
In(x, other) ==
    /\ Len(heap) + 2 <= MaxFilterObjects
    /\ Perform(Called("in_", x, other),
               Filterable_in(heap, x, other))

\* x.exists()
Exists(x) ==
    /\ Len(heap) < MaxFilterObjects
    /\ Perform(Called("exists", x, None),
               Filterable_exists(heap, x))

\* ~x, x.not_()
Invert(x) ==
    /\ Len(heap) < MaxFilterObjects
    /\ Perform(Called("__invert__", x, None),
               Filterable_invert(heap, x))

\* the filters among the objects; the others are the composites made of them
Filters == {i \in Objects : IsSubclass(heap[i].cls, "Filterable")}

NextFilter ==
    \/ \E x \in Filters, other \in FilterValues,
          lookup \in {Lookup(n) : n \in {"EQUAL", "LT", "LE", "GT", "GE", "LIKE", "ILIKE"}} :
          LookupValue(x, lookup, other)
    \/ \E x \in Filters, other \in FilterValues : In(x, other)
    \/ \E x \in Filters : Exists(x)
    \/ \E x \in Filters : Invert(x)
    \/ \E x \in Filters, operand \in {AND, OR},
          other \in {Ref(i) : i \in Filters} \cup FilterValues :
          /\ IsCompositable(heap, Ref(x))
          /\ Len(heap) < MaxFilterObjects
          /\ Combining(x, operand, other)

SpecFilter == InitFilter /\ [][NextFilter]_vars

LookupOf(o) == GetAttr(o, "__lookup__")

NegatableLookups == {Lookup(n) : n \in {"EQUAL", "IN", "EXISTS", "LIKE", "ILIKE"}}
OrderingLookups == {Lookup("GE"), Lookup("GT"), Lookup("LE"), Lookup("LT")}

\* C9 (filter negation allow-list): ~x on a filter whose lookup is EQUAL, IN,
\* EXISTS, LIKE or ILIKE returns a new filter whose lookup is the old one with
\* the NOT bit set and whose value is that of x; on a filter whose lookup is
\* GE, GT, LE or LT it raises TypeError; in both cases the lookup of x is as
\* it was.
FilterNegation ==
    [][last'.op = "__invert__" =>
         /\ LookupOf(heap[last'.self]) \in NegatableLookups =>
               /\ last'.exc = ""
               /\ last'.ret.v \notin DOMAIN heap
               /\ LookupOf(heap'[last'.ret.v]) = FlagOr(LookupOf(heap[last'.self]), Lookup("NOT"))
               /\ ValueOf(heap'[last'.ret.v]) = ValueOf(heap[last'.self])
         /\ LookupOf(heap[last'.self]) \in OrderingLookups => last'.exc = "TypeError"
         /\ LookupOf(heap'[last'.self]) = LookupOf(heap[last'.self])]_vars

\* C10 (double negation): for a filter f whose lookup is EQUAL, f.not_()
\* succeeds with the lookup EQUAL | NOT, and negating its result succeeds as
\* well and gives the same lookup.
DoubleNegation ==
    [][(/\ last'.op = "__invert__"
        /\ \/ LookupOf(heap[last'.self]) = Lookup("EQUAL")
           \/ /\ last.op = "__invert__" /\ last.exc = "" /\ last.ret = Ref(last'.self)
              /\ LookupOf(heap[last.self]) = Lookup("EQUAL")) =>
         /\ last'.exc = ""
         /\ LookupOf(heap'[last'.ret.v]) = FlagOr(Lookup("EQUAL"), Lookup("NOT"))]_vars

\* C11 (value lookups): equal, lt, le, gt, ge, like, ilike applied with x to a
\* filter f return, when x passes check_value, a new filter whose lookup is
\* the corresponding one and whose value is x; when x fails check_value they
\* raise TypeError; f is unchanged either way.  exists() returns a new filter
\* whose lookup is EXISTS and leaves f unchanged.
ValueLookup ==
    [][/\ last'.op = "lookup" =>
            /\ IF value_type_error(Valueable_set_value_type(heap[last'.args.self]),
                                   TypeOf(last'.args.other)) = ""
               THEN /\ last'.exc = ""
                    /\ last'.ret.t = "object"
                    /\ last'.ret.v \notin DOMAIN heap
                    /\ heap'[last'.ret.v].cls = heap[last'.args.self].cls
                    /\ LookupOf(heap'[last'.ret.v]) = last'.args.lookup
                    /\ ValueOf(heap'[last'.ret.v]) = last'.args.other
               ELSE last'.exc = "TypeError"
            /\ heap'[last'.args.self] = heap[last'.args.self]
       /\ last'.op = "exists" =>
            /\ last'.exc = ""
            /\ last'.ret.t = "object"
            /\ last'.ret.v \notin DOMAIN heap
            /\ LookupOf(heap'[last'.ret.v]) = Lookup("EXISTS")
            /\ heap'[last'.self] = heap[last'.self]]_vars

\* a checked filter compared with an int by <
ValueLookupWitness ==
    /\ last.op = "lookup"
    /\ last.exc = ""
    /\ last.args.lookup = Lookup("LT")
    /\ heap[last.args.self].cls = "TypedFilter"
    /\ LookupOf(heap[last.ret.v]) = Lookup("LT")
    /\ ValueOf(heap[last.ret.v]) = PyInt(5)

\* C12 (composition error): f & other and f | other, for a filter f and an
\* operand that is not composable, raise NotAllowedCompositionError, not
\* TypeError, and create no composite.
FilterCompositionError ==
    [][(/\ last'.op \in {"__and__", "__or__"}
        /\ IsSubclass(heap[last'.self].cls, "Filterable")
        /\ ~IsCompositable(heap, last'.other)) =>
         /\ last'.exc = "NotAllowedCompositionError"
         /\ heap' = heap]_vars

\* C13 (composition arguments): create_composition(left, operand, right)
\* builds a node when both sides are composable and operand is AND or OR, and
\* raises TypeError, building nothing, in every other case: a side that is not
\* composable, or an operand that is a string, an integer or a member of
\* another enumeration.
CompositionArgs ==
    [][last'.op = "create_composition" =>
         IF /\ IsCompositable(heap, last'.args.left)
            /\ IsCompositable(heap, last'.args.right)
            /\ last'.args.operand \in {AND, OR}
         THEN /\ last'.exc = ""
              /\ heap' = Append(heap, heap'[Len(heap')])
              /\ last'.ret = Ref(Len(heap'))
         ELSE /\ last'.exc = "TypeError"
              /\ heap' = heap]_vars

BackendPath == <<"nodeedge", "backends", "edgedb", "_field_types">>
Backends == {SubSeq(BackendPath, 1, n) : n \in 1..MaxComponents}

Instances == classes["BaseBackendLoader"]["__instances"]

Idle == [pc |-> "idle", namespace |-> <<>>, obj |-> 0]

Did(op, backend, obj) == [op |-> op, backend |-> backend, obj |-> obj]
Done(op) == {i \in DOMAIN events : events[i].op = op}

\* the loaders that a call has returned: those the program can use
Returned == {events[i].obj : i \in Done("return")}

InitLoader ==
    /\ classes = DefineClasses(<<"BaseBackendLoader", "BackendLoader">>)
    /\ heap = <<>>
    /\ last = NoCall
    /\ events = <<>>
    /\ threads = [t \in 1..MaxThreads |-> Idle]

\* a call that does not look the name up in the cache
LoaderCallUncached(t, namespace) ==
    /\ threads[t].pc = "idle"
    /\ Cardinality(Done("__call__")) < MaxLoaderCalls
    /\ threads' = [threads EXCEPT ![t] = [Idle EXCEPT !.pc = "construct",
                                                     !.namespace = namespace]]
    /\ events' = Append(events, Did("__call__", namespace, 0))
    /\ UNCHANGED <<classes, heap, last>>

\* BaseBackendLoader.__call__(cls, namespace) up to its test
\*     if namespace not in cls.__instances
LoaderCall(t, namespace) ==
    /\ threads[t].pc = "idle"
    /\ Cardinality(Done("__call__")) < MaxLoaderCalls
    /\ threads' = [threads EXCEPT ![t] =
                      [Idle EXCEPT !.pc = IF namespace \in DOMAIN Instances
                                          THEN "return" ELSE "construct",
                                   !.namespace = namespace]]
    /\ events' = Append(events, Did("__call__", namespace, 0))
    /\ UNCHANGED <<classes, heap, last>>

\* super().__call__(namespace): the loader is constructed, or __init__ raises
\* and the call ends
LoaderConstruct(t, built) ==
    /\ threads[t].pc = "construct"
    /\ IF built.exc # ""
       THEN /\ threads' = [threads EXCEPT ![t] = Idle]
            /\ last' = [Called("BackendLoader", 0, [t |-> "str", v |-> threads[t].namespace])
                           EXCEPT !.exc = built.exc]
            /\ UNCHANGED <<heap, events>>
       ELSE /\ heap' = Append(heap, Obj("BackendLoader", built.d))
            /\ threads' = [threads EXCEPT ![t].pc = "store", ![t].obj = Len(heap) + 1]
            /\ events' = Append(events, Did("__init__", threads[t].namespace, Len(heap) + 1))
            /\ UNCHANGED last
    /\ UNCHANGED classes

\* cls.__instances[namespace] = the new loader
LoaderStore(t) ==
    /\ threads[t].pc = "store"
    /\ classes' = [classes EXCEPT !["BaseBackendLoader"]["__instances"] =
                      (threads[t].namespace :> threads[t].obj) @@ @]
    /\ threads' = [threads EXCEPT ![t].pc = "return"]
    /\ events' = Append(events, Did("__setitem__", threads[t].namespace, threads[t].obj))
    /\ UNCHANGED <<heap, last>>

\* return cls.__instances[namespace]
LoaderReturn(t) ==
    /\ threads[t].pc = "return"
    /\ threads' = [threads EXCEPT ![t] = Idle]
    /\ last' = [Called("BackendLoader", 0, [t |-> "str", v |-> threads[t].namespace])
                   EXCEPT !.ret = Ref(Instances[threads[t].namespace])]
    /\ events' = Append(events, Did("return", threads[t].namespace,
                                    Instances[threads[t].namespace]))
    /\ UNCHANGED <<classes, heap>>

\* BackendLoader.namespace, without the cache of cached_property
BackendLoader_namespace(d) == d.base_namespace \o d.name

\* import_module(name, package=...).type_map: the packages of the backends
\* export the type_map of their _field_types module
import_module(name) ==
    IF name \in {SubSeq(BackendPath, 1, 3), BackendPath}
    THEN [exc |-> "", ret |-> [t |-> "FieldTypeMap", v |-> name]]
    ELSE [exc |-> "ModuleNotFoundError", ret |-> None]

\* x.namespace: cached_property keeps the value in the instance dictionary
GetNamespace(x) ==
    /\ heap[x].cls = "BackendLoader"
    /\ heap' = [heap EXCEPT ![x].d = IF "namespace" \in DOMAIN @ THEN @
                                     ELSE ("namespace" :> BackendLoader_namespace(@)) @@ @]
    /\ last' = [Called("namespace", x, None)
                   EXCEPT !.ret = [t |-> "str", v |-> heap'[x].d.namespace]]
    /\ UNCHANGED <<classes, events, threads>>

\* x.field_type_map: the module is imported unless the value is cached; the
\* body reads self.namespace, which is cached as well
GetFieldTypeMap(x, mod) ==
    /\ heap[x].cls = "BackendLoader"
    /\ IF "field_type_map" \in DOMAIN heap[x].d
       THEN /\ last' = [Called("field_type_map", x, None)
                           EXCEPT !.ret = heap[x].d.field_type_map]
            /\ UNCHANGED <<heap, events>>
       ELSE IF mod.exc # ""
       THEN /\ heap' = [heap EXCEPT ![x].d = IF "namespace" \in DOMAIN @ THEN @
                                              ELSE ("namespace" :> BackendLoader_namespace(@)) @@ @]
            /\ last' = [Called("field_type_map", x, None) EXCEPT !.exc = mod.exc]
            /\ UNCHANGED events
       ELSE /\ heap' = [heap EXCEPT ![x].d =
                           [field_type_map |-> mod.ret, _field_type_map |-> mod.ret,
                            namespace |-> BackendLoader_namespace(@)] @@ @]
            /\ last' = [Called("field_type_map", x, None) EXCEPT !.ret = mod.ret]
            /\ events' = Append(events, Did("import_module", BackendLoader_namespace(heap[x].d), x))
    /\ UNCHANGED <<classes, threads>>

\* one thread: a call returns before the next one is made
NextLoader ==
    \/ \E namespace \in Backends : LoaderCall(1, namespace)
    \/ LoaderConstruct(1, Construct("BackendLoader", <<threads[1].namespace>>, <<>>))
    \/ LoaderStore(1)
    \/ LoaderReturn(1)
    \/ \E x \in Returned : GetNamespace(x)
    \/ \E x \in Returned : GetFieldTypeMap(x, import_module(BackendLoader_namespace(heap[x].d)))

SpecLoader == InitLoader /\ [][NextLoader]_vars

\* several threads: the calls interleave
NextLoaderThreads ==
    \/ \E t \in DOMAIN threads, namespace \in Backends : LoaderCall(t, namespace)
    \/ \E t \in DOMAIN threads :
          LoaderConstruct(t, Construct("BackendLoader", <<threads[t].namespace>>, <<>>))
    \/ \E t \in DOMAIN threads : LoaderStore(t)
    \/ \E t \in DOMAIN threads : LoaderReturn(t)
    \/ \E x \in Returned : GetNamespace(x)
    \/ \E x \in Returned : GetFieldTypeMap(x, import_module(BackendLoader_namespace(heap[x].d)))

SpecLoaderThreads == InitLoader /\ [][NextLoaderThreads]_vars

\* C15 (memoized resolution): when the calls BackendLoader(name) follow one
\* another, at most one loader is constructed for each name, every call that
\* returns gives the loader that the first call for its name constructed, and
\* the field type map of a loader is imported at most once.
LoaderMemoized ==
    /\ \A i \in Done("__init__"), j \in Done("__init__") :
          events[i].backend = events[j].backend => i = j
    /\ \A i \in Done("return") :
          \E j \in Done("__init__") :
              j < i /\ events[j].backend = events[i].backend /\ events[j].obj = events[i].obj
    /\ \A i \in Done("import_module"), j \in Done("import_module") :
          events[i].obj = events[j].obj => i = j

\* the second call for nodeedge.backends.edgedb returned the loader of the
\* first one, whose field type map had been imported by then
LoaderMemoizedWitness ==
    /\ last.op = "BackendLoader" /\ last.ret = Ref(1)
    /\ \E i \in Done("return"), j \in Done("return"), k \in Done("import_module") :
          /\ i < k /\ k < j
          /\ events[i].backend = SubSeq(BackendPath, 1, 3)
          /\ events[j].backend = SubSeq(BackendPath, 1, 3)
          /\ events[i].obj = 1 /\ events[j].obj = 1 /\ events[k].obj = 1
    /\ "field_type_map" \in DOMAIN heap[1].d

\* C16 (concurrent first use): when threads call BackendLoader(name) at the
\* same time for a name that is not cached, at most one loader is constructed
\* for the name, the cache entry of the name is written once, and all the
\* calls return the same loader.
LoaderOncePerKey ==
    /\ \A i \in Done("__init__"), j \in Done("__init__") :
          events[i].backend = events[j].backend => i = j
    /\ \A i \in Done("__setitem__"), j \in Done("__setitem__") :
          events[i].backend = events[j].backend => i = j
    /\ \A i \in Done("return"), j \in Done("return") :
          events[i].backend = events[j].backend => events[i].obj = events[j].obj

\* C17 (namespace): for every backend name of two or more components that
\* the loader accepts, the namespace of the loader is the name it was given.
NamespaceIsBackend ==
    last.op = "namespace" =>
        \A i \in Done("__init__") :
            events[i].obj = last.self => last.ret.v = events[i].backend

(***************************************************************************)
(* Model classes: AbstractModel.__new__ of model/models.py, the field info *)
(* of model/fields.py and BaseModel.update_forward_refs.  A model class is *)
(* an object of its metaclass: its dictionary holds __name__ and           *)
(* __fields__, attribute name -> [type_, field_info].  The class           *)
(* statements are those of one module whose annotations are strings        *)
(* (from __future__ import annotations): a name resolves when a class of   *)
(* that name has been defined in the module.                               *)
(***************************************************************************)
ModelNames == {"SampleModel1", "SampleModel2", "SampleModel3"}

\* the declared kinds: name: fields.Str, link_to: fields.Link[Target, None]
\* and link_to: fields.MultiLink[Target, None]
Annotation(kind, target) == [kind |-> kind, target |-> target]

Annotations ==
    LET links == {Annotation(k, n) : k \in {"Link", "MultiLink"}, n \in ModelNames}
    IN  {<<>>, [name |-> Annotation("Str", "")]} \cup
        {[link_to |-> l] : l \in links} \cup
        {[name |-> Annotation("Str", ""), link_to |-> l] : l \in links}

\* the names that the module binds to a model class
Defined(h) == {h[i].d.__name__ : i \in DOMAIN h}

\* pydantic's ModelField.type_: a ForwardRef while a name of the annotation
\* does not resolve
FieldType(annotation, namespace) ==
    [forward |-> annotation.target # "" /\ annotation.target \notin namespace,
     kind |-> annotation.kind, target |-> annotation.target]

\* NodeEdgeFieldInfo(**kwargs): the __init__ that dataclass(frozen=True,
\* kw_only=True) generates from the fields model and link_property_model
NodeEdgeFieldInfo_init(kwargs) ==
    IF ~(DOMAIN kwargs \subseteq {"model", "link_property_model"}) \/ "model" \notin DOMAIN kwargs
    THEN [exc |-> "TypeError", d |-> <<>>]
    ELSE [exc |-> "", d |-> kwargs @@ [link_property_model |-> None]]

\* nodeedge_field_info_from_field(model, _field); a link property model of
\* None is not a BaseLinkPropertyModel and stays None
nodeedge_field_info_from_field(model, type_) ==
    IF type_.forward
    THEN NodeEdgeFieldInfo_init([model |-> ClassRef(model), deferred |-> PyBool(TRUE)])
    ELSE LET link == type_.kind \in {"Link", "MultiLink"}
         IN  NodeEdgeFieldInfo_init(
                 [model |-> ClassRef(model),
                  deferred |-> PyBool(FALSE),
                  is_single_link |-> PyBool(link /\ type_.kind = "Link"),
                  is_multi_link |-> PyBool(link /\ type_.kind = "MultiLink"),
                  link_model |-> IF link THEN ClassRef(type_.target) ELSE None,
                  link_property_model |-> None])

\* the metaclass call of a class statement.  pydantic's ModelMetaclass
\* builds __fields__ with its own field info (no nodeedge entry);
\* AbstractModel.__new__ then replaces the field of every hint by
\* Field(type_=..., field_info=FieldInfo(nodeedge=...)), and an exception
\* of nodeedge_field_info_from_field ends the class statement
ModelMetaclass_new(h, metaclass, cls_name, annotations) ==
    LET types == [a \in DOMAIN annotations |-> FieldType(annotations[a], Defined(h))]
        infos == [a \in DOMAIN annotations |-> nodeedge_field_info_from_field(cls_name, types[a])]
        failed == {a \in DOMAIN annotations : infos[a].exc # ""}
        fields == [a \in DOMAIN annotations |->
                      [type_ |-> types[a],
                       field_info |-> IF metaclass = "AbstractModel"
                                      THEN [nodeedge |-> <<infos[a].d>>]
                                      ELSE [nodeedge |-> <<>>]]]
    IN  IF metaclass = "AbstractModel" /\ failed # {}
        THEN Raise(h, infos[CHOOSE a \in failed : TRUE].exc)
        ELSE Outcome(Append(h, Obj(metaclass, [__name__ |-> cls_name, __fields__ |-> fields])),
                     Ref(Len(h) + 1), "")

\* BaseModel.update_forward_refs(**localns): pydantic's
\* update_model_forward_refs evaluates the type of every field that is a
\* ForwardRef in the namespace of the module, the class itself and localns,
\* and raises NameError for a name that is in none of them; the field info
\* is not an argument of it
update_forward_refs(h, cls, localns) ==
    LET namespace == Defined(h) \cup localns
        fields == h[cls].d.__fields__
        unresolved == {a \in DOMAIN fields : fields[a].type_.forward
                                             /\ fields[a].type_.target \notin namespace}
        updated == [a \in DOMAIN fields |-> [fields[a] EXCEPT !.type_.forward = FALSE]]
    IN  IF unresolved # {} THEN Raise(h, "NameError")
        ELSE Outcome([h EXCEPT ![cls].d.__fields__ = updated], None, "")

InitModel ==
    /\ classes = <<>>
    /\ heap = <<>>
    /\ last = NoCall
    /\ events = <<>>
    /\ threads = <<>>

\* class cls_name(Model): ... with metaclass AbstractModel, or a pydantic
\* model class BaseNodeModel derives: class cls_name(BaseNodeModel): ...
ModelStatement(metaclass, cls_name, annotations) ==
    /\ Len(heap) < MaxModels
    /\ cls_name \notin Defined(heap)
    /\ Perform([Called("class", 0, ClassRef(cls_name)) EXCEPT !.args = <<metaclass>>,
                                                             !.kwargs = annotations],
               ModelMetaclass_new(heap, metaclass, cls_name, annotations))

\* x.update_forward_refs(**localns)
UpdateForwardRefs(x, localns) ==
    Perform([Called("update_forward_refs", x, None) EXCEPT !.args = <<localns>>],
            update_forward_refs(heap, x, localns))

NextModel ==
    \/ \E metaclass \in {"AbstractModel", "ModelMetaclass"}, cls_name \in ModelNames,
          annotations \in Annotations : ModelStatement(metaclass, cls_name, annotations)
    \/ \E x \in Objects, localns \in {{}} \cup {{n} : n \in ModelNames} :
          UpdateForwardRefs(x, localns)

SpecModel == InitModel /\ [][NextModel]_vars

\* the nodeedge field info of a field of a model class: <<>> when there is none
NodeEdgeInfo(o, a) == o.d.__fields__[a].field_info.nodeedge

\* C18 (deferred forward references): a class statement of a model whose
\* attribute names a model that is not defined yet succeeds and gives that
\* attribute a field info marked deferred; after update_forward_refs has
\* returned, no field info of the class is deferred, and the info of a link
\* attribute names the linked model and tells a single from a multi link.
DeferredForwardRefs ==
    [][/\ (/\ last'.op = "class"
           /\ last'.args = <<"AbstractModel">>
           /\ \E a \in DOMAIN last'.kwargs : FieldType(last'.kwargs[a], Defined(heap)).forward)
          => /\ last'.exc = ""
             /\ \A a \in DOMAIN last'.kwargs :
                   FieldType(last'.kwargs[a], Defined(heap)).forward
                   => LET info == NodeEdgeInfo(heap'[Len(heap')], a)
                      IN  /\ info # <<>>
                          /\ "deferred" \in DOMAIN info[1]
                          /\ info[1].deferred = PyBool(TRUE)
       /\ (/\ last'.op = "update_forward_refs"
           /\ last'.exc = ""
           /\ heap[last'.self].cls = "AbstractModel")
          => \A a \in DOMAIN heap'[last'.self].d.__fields__ :
                LET info == NodeEdgeInfo(heap'[last'.self], a)
                    type_ == heap'[last'.self].d.__fields__[a].type_
                IN  /\ info # <<>>
                    /\ {"deferred", "link_model", "is_single_link", "is_multi_link"}
                          \subseteq DOMAIN info[1]
                    /\ info[1].deferred = PyBool(FALSE)
                    /\ type_.kind \in {"Link", "MultiLink"}
                       => /\ info[1].link_model = ClassRef(type_.target)
                          /\ info[1].is_single_link = PyBool(type_.kind = "Link")
                          /\ info[1].is_multi_link = PyBool(type_.kind = "MultiLink")
      ]_vars

(***************************************************************************)
(* Class statements of the clone protocol: class Declared(Cloneable) and   *)
(* class Derived(Declared), whose bodies may assign __cloning_attrs__ and  *)
(* __allow_mixin_operation__.                                              *)
(***************************************************************************)
List(seq) == [t |-> "list", v |-> seq]

\* the values a body assigns to __cloning_attrs__
CloningAttrsDeclarations ==
    {FrozenSet({"name"}), [t |-> "set", v |-> {"name"}], Tuple(<<"name", "id">>),
     List(<<"name">>), PyStr("name"), PyStr("id"), PyInt(5), None}

ClassBodies ==
    LET attrs == {<<>>} \cup {[__cloning_attrs__ |-> v] : v \in CloningAttrsDeclarations}
    IN  attrs \cup {[__allow_mixin_operation__ |-> PyBool(0)] @@ b : b \in attrs}

InitDeclare ==
    /\ classes = DefineClasses(<<"Cloneable">>)
    /\ heap = <<>>
    /\ last = NoCall
    /\ events = <<>>
    /\ threads = <<>>

\* class c(<bases>): <body>, once the bases of c exist
ClassStatement(c, body) ==
    /\ c \notin DOMAIN classes
    /\ \A i \in DOMAIN Bases(c) : Bases(c)[i] \in DOMAIN classes
    /\ classes' = class_body(classes, c, body)
    /\ last' = [Called("class", 0, ClassRef(c))
                   EXCEPT !.kwargs = body,
                          !.exc = init_subclass_exc((c :> body) @@ classes, c)]
    /\ UNCHANGED <<heap, events, threads>>

NextDeclare == \E c \in {"Declared", "Derived"}, body \in ClassBodies : ClassStatement(c, body)

SpecDeclare == InitDeclare /\ [][NextDeclare]_vars

\* C19 (carry-over declaration): a class statement of the clone protocol
\* whose body assigns to __cloning_attrs__ a value that is neither a set nor
\* an ordered sequence of names raises ConfigurationError and defines no
\* class.
CloningAttrsDeclaration ==
    [][(/\ last'.op = "class"
        /\ "__cloning_attrs__" \in DOMAIN last'.kwargs
        /\ last'.kwargs.__cloning_attrs__.t \notin {"frozenset", "set", "tuple", "list"})
       => /\ last'.exc = "ConfigurationError"
          /\ classes' = classes]_vars

(***************************************************************************)
(* Int16 of model/_fields/field_types.py as the type of a field of a       *)
(* pydantic model: class SampleModel(BaseNodeModel): field: fields.Int16.  *)
(* SampleModel(field=value) runs the validators of the field in the order  *)
(* Int16.__get_validators__ yields them and raises ValidationError when    *)
(* one of them raises.                                                     *)
(***************************************************************************)
\* a validator that yields only the classmethod of Int16
Int16_validate_only == <<"validate">>

\* Int16.__get_validators__: those of ConstrainedInt (strict is False), then
\* cls.validate
Int16_get_validators ==
    <<"int_validator", "number_size_validator", "number_multiple_validator", "validate">>

\* int(value) of a value that is not an int: a bool gives 0 or 1, the
\* strings of the model are not numerals
int_of(value) ==
    CASE value.t \in {"int", "bool"} -> [exc |-> "", v |-> PyInt(value.v)]
      [] OTHER -> [exc |-> "ValueError", v |-> value]

\* one validator applied to a value: pydantic's int_validator,
\* number_size_validator (gt and lt of Int16 are None) and
\* number_multiple_validator (multiple_of is None), and Int16.validate,
\* which is cls(value) and keeps int(result) as _python_value
validator_call(name, T, value) ==
    CASE name = "int_validator" ->
            IF int_of(value).exc = "" THEN int_of(value) ELSE [exc |-> "IntegerError", v |-> value]
      [] name = "number_size_validator" ->
            IF ~(value.v >= T["Int16"].ge.v) THEN [exc |-> "NumberNotGeError", v |-> value]
            ELSE IF ~(value.v <= T["Int16"].le.v) THEN [exc |-> "NumberNotLeError", v |-> value]
            ELSE [exc |-> "", v |-> value]
      [] name = "validate" -> int_of(value)
      [] OTHER -> [exc |-> "", v |-> value]

\* the validators applied in order, up to the first that raises
RECURSIVE apply_validators(_, _, _)
apply_validators(validators, T, value) ==
    IF validators = <<>> THEN [exc |-> "", v |-> value]
    ELSE LET first == validator_call(Head(validators), T, value)
         IN  IF first.exc # "" THEN first ELSE apply_validators(Tail(validators), T, first.v)

\* the Int16 object of an int
Int16_object(v) == Obj("Int16", [value |-> v, _python_value |-> v])

\* SampleModel(field=value): the instance and the Int16 object of its field,
\* or the ValidationError that reports the error of a validator
validate_model(h, T, value) ==
    LET validated == apply_validators(Int16_get_validators, T, value)
    IN  IF validated.exc # "" THEN Raise(h, "ValidationError")
        ELSE Outcome(h \o <<Int16_object(validated.v),
                            Obj("SampleModel", [field |-> Ref(Len(h) + 1)])>>,
                     Ref(Len(h) + 2), "")

\* Int16.validate(value) called by itself
Int16_validate(h, value) ==
    IF int_of(value).exc # "" THEN Raise(h, int_of(value).exc)
    ELSE Outcome(Append(h, Int16_object(int_of(value).v)), Ref(Len(h) + 1), "")

\* the values tried: the ints at most MaxDistance from a limit or from 0,
\* the bools and a str
FieldValues ==
    {PyInt(m + k) : m \in {-32768, 0, 32767}, k \in -MaxDistance..MaxDistance}
        \cup {PyBool(0), PyBool(1), PyStr("invalid")}

InitInt16 ==
    /\ classes = DefineClasses(<<"Int16">>)
    /\ heap = <<>>
    /\ last = NoCall
    /\ events = <<>>
    /\ threads = <<>>

\* the calls that raise leave the heap as it is and are always tried
NewModel(value) ==
    LET out == validate_model(heap, classes, value)
    IN  /\ CountOf("Int16") < MaxInstances \/ out.exc # ""
        /\ Perform(Called("SampleModel", 0, value), out)

Validate(value) ==
    LET out == Int16_validate(heap, value)
    IN  /\ CountOf("Int16") < MaxInstances \/ out.exc # ""
        /\ Perform(Called("validate", 0, value), out)

NextInt16 ==
    \/ \E value \in FieldValues : NewModel(value)
    \/ \E value \in FieldValues : Validate(value)

SpecInt16 == InitInt16 /\ [][NextInt16]_vars

Wide(hi, lo) == [hi |-> hi + (lo \div 1000000), lo |-> lo % 1000000]

\* 3600000000, 60000000 and 1000000
USECS_PER_HOUR == Wide(3600, 0)
USECS_PER_MINUTE == Wide(60, 0)
USECS_PER_SEC == Wide(1, 0)
MONTHS_PER_YEAR == 12

\* a * b for an int a below the limb, a // b and a % b for a >= 0, when b is
\* a whole number of seconds
WideTimes(a, b) == Wide(a * b.hi, 0)
WideDiv(a, b) == a.hi \div b.hi
WideMod(a, b) == Wide(a.hi % b.hi, a.lo)
WideAdd(a, b) == Wide(a.hi + b.hi, a.lo + b.lo)
WideNeg(a) == Wide(-a.hi, -a.lo)

\* str(n) of an int below the limb, and int(text) of a run of digits
DigitChars == <<"0", "1", "2", "3", "4", "5", "6", "7", "8", "9">>

RECURSIVE Decimal(_)
Decimal(n) ==
    IF n < 0 THEN <<"-">> \o Decimal(-n)
    ELSE IF n < 10 THEN <<DigitChars[n + 1]>>
    ELSE Decimal(n \div 10) \o <<DigitChars[(n % 10) + 1]>>

IsDigit(c) == \E d \in DOMAIN DigitChars : DigitChars[d] = c

RECURSIVE IntOf(_)
IntOf(text) ==
    IF text = <<>> THEN 0
    ELSE IntOf(SubSeq(text, 1, Len(text) - 1)) * 10
         + (CHOOSE d \in 0..9 : DigitChars[d + 1] = text[Len(text)])

\* format_date_duration(months, days, only_body=only_body)
format_date_duration(months, days, only_body) ==
    LET year == months \div MONTHS_PER_YEAR
        month == months % MONTHS_PER_YEAR
        date_part == (IF year # 0 THEN Decimal(year) \o <<"Y">> ELSE <<>>)
                     \o (IF month # 0 THEN Decimal(month) \o <<"M">> ELSE <<>>)
                     \o (IF days # 0 THEN Decimal(days) \o <<"D">> ELSE <<>>)
    IN  IF date_part = <<>> THEN (IF only_body THEN <<>> ELSE <<"P", "0", "D">>)
        ELSE IF only_body THEN date_part
        ELSE <<"P">> \o date_part

\* format_relative_duration(months, days, microseconds)
format_relative_duration(months, days, microseconds) ==
    IF months = 0 /\ days = 0 /\ microseconds = Wide(0, 0) THEN <<"P", "T", "0", "S">>
    ELSE LET is_negative == microseconds.hi < 0
             magnitude == IF is_negative THEN WideNeg(microseconds) ELSE microseconds
             hour == WideDiv(magnitude, USECS_PER_HOUR)
             after_hour == WideMod(magnitude, USECS_PER_HOUR)
             minute == WideDiv(after_hour, USECS_PER_MINUTE)
             after_minute == WideMod(after_hour, USECS_PER_MINUTE)
             second == IF is_negative THEN -WideDiv(after_minute, USECS_PER_SEC)
                       ELSE WideDiv(after_minute, USECS_PER_SEC)
             fraction == WideMod(after_minute, USECS_PER_SEC).lo
             units == (IF hour # 0 THEN Decimal(hour) \o <<"H">> ELSE <<>>)
                      \o (IF minute # 0 THEN Decimal(minute) \o <<"M">> ELSE <<>>)
                      \o (IF fraction # 0
                          THEN Decimal(second) \o <<".">> \o Decimal(fraction)
                          ELSE Decimal(second))
         IN  <<"P">> \o format_date_duration(months, days, TRUE) \o <<"T">> \o units \o <<"S">>

\* one optional group ([0-9]+)<unit> of the pattern, tried at position i:
\* the digits it captures (<<>> when the group does not take part) and the
\* position after it
RECURSIVE DigitsFrom(_, _)
DigitsFrom(text, i) ==
    IF i <= Len(text) /\ IsDigit(text[i]) THEN <<text[i]>> \o DigitsFrom(text, i + 1) ELSE <<>>

Group(text, i, unit) ==
    LET digits == DigitsFrom(text, i)
        end == i + Len(digits)
    IN  IF digits # <<>> /\ end <= Len(text) /\ text[end] = unit
        THEN [digits |-> digits, next |-> end + 1]
        ELSE [digits |-> <<>>, next |-> i]

\* the group ((?P<sec>[\-]?[0-9]+)([\.](?P<msec>[0-9]+))?S)?
SecGroup(text, i) ==
    LET minus == i <= Len(text) /\ text[i] = "-"
        start == IF minus THEN i + 1 ELSE i
        sec == DigitsFrom(text, start)
        dot == start + Len(sec)
        msec == IF sec # <<>> /\ dot <= Len(text) /\ text[dot] = "."
                THEN DigitsFrom(text, dot + 1) ELSE <<>>
        end == IF msec # <<>> THEN dot + 1 + Len(msec) ELSE dot
    IN  IF sec # <<>> /\ end <= Len(text) /\ text[end] = "S"
        THEN [sec |-> sec, negative |-> minus, msec |-> msec, next |-> end + 1]
        ELSE [sec |-> <<>>, negative |-> FALSE, msec |-> <<>>, next |-> i]

\* parse_relative_duration(value): PATTERN_RELATIVE_DURATION.fullmatch and
\* the units computed from its groups (int of an absent group counts 0; the
\* alternative PT0S has no group and gives zeros as well)
parse_relative_duration(value) ==
    LET year == Group(value, 2, "Y")
        month == Group(value, year.next, "M")
        day == Group(value, month.next, "D")
        t == day.next
        hour == Group(value, t + 1, "H")
        minute == Group(value, hour.next, "M")
        sec == SecGroup(value, minute.next)
        matched == /\ Len(value) >= 2
                   /\ value[1] = "P"
                   /\ t <= Len(value)
                   /\ value[t] = "T"
                   /\ sec.next = Len(value) + 1
        converted_sec == IF sec.negative THEN -IntOf(sec.sec) ELSE IntOf(sec.sec)
        sign == IF converted_sec < 0 THEN -1 ELSE 1
        abs_sec == IF converted_sec < 0 THEN -converted_sec ELSE converted_sec
    IN  IF ~matched THEN [exc |-> "ValueError", months |-> 0, days |-> 0,
                          microseconds |-> Wide(0, 0)]
        ELSE [exc |-> "",
              months |-> IntOf(year.digits) * MONTHS_PER_YEAR + IntOf(month.digits),
              days |-> IntOf(day.digits),
              microseconds |->
                  LET seconds == WideAdd(WideTimes(abs_sec, USECS_PER_SEC),
                                         Wide(0, IntOf(sec.msec)))
                  IN  WideAdd(WideAdd(WideTimes(IntOf(hour.digits), USECS_PER_HOUR),
                                      WideTimes(IntOf(minute.digits), USECS_PER_MINUTE)),
                              IF sign < 0 THEN WideNeg(seconds) ELSE seconds)]

\* the units tried: years, months, hours, minutes and seconds up to
\* MaxUnits, the days and the fractions of the tests, both signs
DurationUnits ==
    [months : {y * MONTHS_PER_YEAR + m : y \in 0..MaxUnits, m \in {0, 3}},
     days : {0, 34},
     microseconds : {Wide(sign * (h * 3600 + m * 60 + s), sign * f) :
                        sign \in {1, -1}, h \in 0..MaxUnits, m \in 0..MaxUnits,
                        s \in {0, 35}, f \in {0, 5, 431000}}]

\* the texts tried: those of test_relative_duration and texts outside the
\* pattern
DurationTexts ==
    {<<"P", "T", "0", "S">>, <<"P", "1", "Y", "3", "M", "3", "4", "D", "T", "0", "S">>,
     <<"P", "T", "-", "3", "5", "S">>,
     <<"P", "T", "3", "5", ".", "4", "3", "1", "0", "0", "0", "S">>,
     <<"P", "1", "Y">>, <<"T", "1", "S">>, <<"P", "T">>}

\* the frame: the call to make next, the locals and the value the program
\* was given
Frame(pc, units, text) ==
    [pc |-> pc, units |-> units, text |-> text, calls |-> 0,
     input |-> IF pc = "format" THEN [t |-> "dict", v |-> units] ELSE [t |-> "str", v |-> text]]

InitDuration ==
    /\ classes = <<>>
    /\ heap = <<>>
    /\ last = NoCall
    /\ events = <<>>
    /\ \/ \E units \in DurationUnits : threads = <<Frame("format", units, <<>>)>>
       \/ \E text \in DurationTexts :
             threads = <<Frame("parse", [months |-> 0, days |-> 0, microseconds |-> Wide(0, 0)],
                               text)>>

\* text = format_relative_duration(**units)
FormatDuration ==
    /\ threads[1].pc = "format"
    /\ LET text == format_relative_duration(threads[1].units.months, threads[1].units.days,
                                            threads[1].units.microseconds)
       IN  /\ threads' = <<[threads[1] EXCEPT !.text = text, !.calls = @ + 1,
                                              !.pc = IF @ = "format" /\ threads[1].calls = 0
                                                     THEN "parse" ELSE "done"]>>
           /\ last' = [Called("format_relative_duration", 0, None)
                          EXCEPT !.kwargs = threads[1].units,
                                 !.ret = [t |-> "str", v |-> text]]
    /\ UNCHANGED <<classes, heap, events>>

\* units = parse_relative_duration(text)
ParseDuration ==
    /\ threads[1].pc = "parse"
    /\ LET parsed == parse_relative_duration(threads[1].text)
           units == [months |-> parsed.months, days |-> parsed.days,
                     microseconds |-> parsed.microseconds]
       IN  /\ threads' = <<[threads[1] EXCEPT !.units = IF parsed.exc = "" THEN units ELSE @,
                                              !.calls = @ + 1,
                                              !.pc = IF parsed.exc = "" /\ threads[1].calls = 0
                                                     THEN "format" ELSE "done"]>>
           /\ last' = [Called("parse_relative_duration", 0, [t |-> "str", v |-> threads[1].text])
                          EXCEPT !.ret = IF parsed.exc = "" THEN [t |-> "dict", v |-> units]
                                         ELSE None,
                                 !.exc = parsed.exc]
    /\ UNCHANGED <<classes, heap, events>>

NextDuration == FormatDuration \/ ParseDuration

SpecDuration == InitDuration /\ [][NextDuration]_vars

\* C21 (RelativeDuration round trip): parsing the text that
\* format_relative_duration gives for months >= 0, days >= 0 and any
\* microseconds returns those months, days and microseconds; the text
\* P1Y3M34DT0S parses to 15 months, 34 days and 0 microseconds, which format
\* back to the same text.
DurationRoundTrip ==
    threads # <<>> /\ threads[1].pc = "done"
    => /\ threads[1].input.t = "dict"
          => last.exc = "" /\ threads[1].units = threads[1].input.v
       /\ threads[1].input = [t |-> "str",
                              v |-> <<"P", "1", "Y", "3", "M", "3", "4", "D", "T", "0", "S">>]
          => /\ threads[1].units = [months |-> 15, days |-> 34, microseconds |-> Wide(0, 0)]
             /\ threads[1].text = threads[1].input.v

(***************************************************************************)
(* find_member on the enumerations: called on the class or on a member,    *)
(* with a member, a name, a value or something else.                       *)
(***************************************************************************)
EnumClasses == {"EnumOperand", "EnumLookupExpression", "Sample"}

EnumEntries(cls) == {Members(cls)[i] : i \in DOMAIN Members(cls)}

\* the arguments tried: every member, name and value of every enumeration, a
\* combination of two flags, a bool, a name and a value that no enumeration
\* has, and None
FindArguments ==
    UNION {{e.member, PyStr(e.name), e.value} : e \in UNION {EnumEntries(c) : c \in EnumClasses}}
        \cup {FlagOr(Lookup("NOT"), Lookup("EQUAL")), PyBool(1), PyStr("xor"), PyInt(3), None}

InitEnum ==
    /\ classes = <<>>
    /\ heap = <<>>
    /\ last = NoCall
    /\ events = <<>>
    /\ threads = <<>>

\* cls.find_member(member), or receiver.find_member(member) on a member of
\* cls: a classmethod gets the class of the member
FindMember(cls, receiver, member) ==
    /\ last' = [Called("find_member", 0, member)
                   EXCEPT !.args = <<cls, receiver>>,
                          !.ret = find_member(cls, member).ret,
                          !.exc = find_member(cls, member).exc]
    /\ UNCHANGED <<classes, heap, events, threads>>

NextEnum ==
    \E cls \in EnumClasses, member \in FindArguments :
        \E receiver \in {ClassRef(cls)} \cup {e.member : e \in EnumEntries(cls)} :
            FindMember(cls, receiver, member)

SpecEnum == InitEnum /\ [][NextEnum]_vars

\* C22 (find_member): for every member m of an enumeration, find_member(m),
\* find_member(m.name) and find_member(m.value) return m, called on the
\* class or on one of its members.
FindMemberFindsMember ==
    last.op = "find_member"
    => \A e \in EnumEntries(last.args[1]) :
          last.other \in {e.member, PyStr(e.name), e.value}
          => last.exc = "" /\ last.ret = e.member

(***************************************************************************)
(* The Composites of a heap                                                *)
(***************************************************************************)
\* C23 (Composite invariant): every Composite that a sequence of
\* create_composition calls and of & and | produces has a left and a right
\* that are not null and are each a leaf or a Composite, and an operand that
\* is one of the EnumOperand members AND and OR.
CompositeInvariant ==
    \A i \in Compositions :
       /\ Left(heap[i]) # None /\ IsCompositable(heap, Left(heap[i]))
       /\ Right(heap[i]) # None /\ IsCompositable(heap, Right(heap[i]))
       /\ Operand(heap[i]) \in {AND, OR}

\* C24 (combining leaves the operands alone): x & y, x | y and
\* create_composition(x, op, y) change no object that existed before the call,
\* so the left, right and operand of x, of y and of every node reachable from
\* them are what they were; and the object a successful call returns is a
\* Composite that did not exist before, distinct from x and from y.
CombiningFrame ==
    [][last'.op \in {"__and__", "__or__", "create_composition"} =>
         /\ \A i \in DOMAIN heap : i \in DOMAIN heap' /\ heap'[i] = heap[i]
         /\ last'.exc = "" =>
               /\ last'.ret.v \notin DOMAIN heap
               /\ last'.ret.v \in DOMAIN heap'
               /\ IsComposition(heap', last'.ret)
               /\ last'.ret # (IF last'.op = "create_composition"
                               THEN last'.args.left ELSE Ref(last'.self))
               /\ last'.ret # (IF last'.op = "create_composition"
                               THEN last'.args.right ELSE last'.other)]_vars

\* (a OR b) was combined with c into a new node, and (a OR b) is as it was
CombiningFrameWitness ==
    /\ Len(heap) = 6
    /\ last.op = "create_composition" /\ last.exc = "" /\ last.ret = Ref(6)
    /\ last.args.left = Ref(5) /\ last.args.operand = AND /\ last.args.right = Ref(3)
    /\ Left(heap[6]) = Ref(5) /\ Right(heap[6]) = Ref(3) /\ Operand(heap[6]) = AND
    /\ Left(heap[5]) = Ref(1) /\ Right(heap[5]) = Ref(2) /\ Operand(heap[5]) = OR
    /\ "__left__" \notin DOMAIN heap[1].d /\ "__operand__" \notin DOMAIN heap[1].d

\* the number of Composite ancestors of the node each hook call of a visit is
\* about, call by call as Visit lists them; the operator injected before a
\* right child stands at the level of that child
RECURSIVE Levels(_, _, _, _)
Levels(h, x, direction, level) ==
    (IF direction = "right" THEN <<level>> ELSE <<>>)
    \o (IF IsLeaf(h, x) THEN <<level>>
        ELSE <<level>> \o Levels(h, Left(h[x.v]), "left", level + 1)
             \o Levels(h, Right(h[x.v]), "right", level + 1) \o <<level>>)

\* C25 (traversal depth): for every tree shape, the depth map_composition
\* passes to on_begin_wrap and on_finish_wrap for a Composite is its number of
\* Composite ancestors (0 for the root); the depth passed to on_composite for
\* a leaf, and for the operator injected before a right child, depends only on
\* the nesting level of that node, so two nodes at the same level receive the
\* same depth, also when the left child of a Composite is a Composite; and no
\* depth passed is negative.
TraversalDepth ==
    [][(last'.op = "map_composition" /\ IsTree(heap, Ref(last'.self))) =>
         LET levels == Levels(heap, Ref(last'.self), "", 0)
             calls == events'
         IN /\ Len(levels) = Len(calls)
            /\ \A i \in DOMAIN calls :
                  /\ calls[i].depth >= 0
                  /\ calls[i].hook \in {"on_begin_wrap", "on_finish_wrap"}
                        => calls[i].depth = levels[i]
                  /\ \A j \in DOMAIN calls :
                        (/\ calls[i].hook = "on_composite"
                         /\ calls[j].hook = "on_composite"
                         /\ (calls[i].item = None) = (calls[j].item = None)
                         /\ levels[i] = levels[j])
                        => calls[i].depth = calls[j].depth]_vars

(***************************************************************************)
(* The order of the three steps of _clone                                  *)
(***************************************************************************)
\* the attributes that the two loops after the construction write
WrittenAfterInit(src, attrs) ==
    CloningAttrsOf(src) \cup {Projected(src.cls, a) : a \in DOMAIN attrs}

\* C26 (clone precedence): in every clone, a constructor argument is the
\* positional / keyword override of its name when one is supplied and the
\* source's current attribute of that name otherwise (seen on the attribute
\* the constructor stores it in, when no later step writes that attribute);
\* a carry-over attribute that is not overridden ends with the source's value
\* even if the constructor assigned something else; and every attribute named
\* in the attribute overrides ends with the override value, whatever the
\* constructor or the carry-over copy set.
ClonePrecedence ==
    [][(last'.op = "_clone" /\ last'.exc = "") =>
         LET src == heap[last'.self]
             new == heap'[last'.ret.v]
             args == last'.args
             kwargs == last'.kwargs
             attrs == last'.attrs
             positional == ClassGetAttr(src.cls, "__init_args__", Tuple(<<>>)).v
             keyword == ClassGetAttr(src.cls, "__init_kwargs__", FrozenSet({})).v
             later == WrittenAfterInit(src, attrs)
         IN /\ \A i \in DOMAIN positional :
                  Projected(src.cls, positional[i]) \notin later =>
                     GetAttr(new, positional[i]) =
                        IF positional[i] \in DOMAIN args THEN args[positional[i]]
                        ELSE GetAttr(src, positional[i])
            /\ \A n \in keyword \ DOMAIN args :
                  Projected(src.cls, n) \notin later =>
                     GetAttr(new, n) = IF n \in DOMAIN kwargs THEN kwargs[n]
                                       ELSE GetAttr(src, n)
            /\ \A a \in CloningAttrsOf(src) \ DOMAIN attrs :
                  GetAttr(new, a) = GetAttr(src, a)
            /\ \A a \in DOMAIN attrs : GetAttr(new, a) = attrs[a]]_vars

\* Sample(5)._clone(args={"value": 7}, attrs={"name": "test"}): the constructor
\* stored 7, the carry-over copy put the 5 of the source back, and the
\* override of name was set last
ClonePrecedenceWitness ==
    /\ last.op = "_clone" /\ last.exc = ""
    /\ heap[last.self].cls = "ValueSample"
    /\ last.args = [value |-> PyInt(7)]
    /\ last.attrs = [name |-> PyStr("test")]
    /\ Construct("ValueSample", <<PyInt(7)>>, <<>>).d.__value__ = PyInt(7)
    /\ "__value__" \in CloningAttrsOf(heap[last.self])
    /\ GetAttr(heap[last.self], "value") = PyInt(5)
    /\ GetAttr(heap[last.ret.v], "value") = PyInt(5)
    /\ GetAttr(heap[last.ret.v], "name") = PyStr("test")

(***************************************************************************)
(* The carry-over set a class statement leaves                             *)
(***************************************************************************)
\* the carry-over names of the classes of a table, each as its own row of
\* the table holds them
CarryOverOf(T, cs) ==
    UNION {frozenset_of(T[cs[i]].__cloning_attrs__).v :
              i \in {j \in DOMAIN cs : "__cloning_attrs__" \in DOMAIN T[cs[j]]}}

\* C27 (carry-over accumulation): for every type of the clone protocol the
\* carry-over set that clone uses is the union of the set the type declares
\* and of the sets of every ancestor, direct or indirect, that declares one;
\* a declaration in a subclass or in an intermediate class removes no name
\* that an ancestor declared.
CarryOverAccumulation ==
    [][(/\ last'.op = "class"
        /\ last'.exc = ""
        /\ Truthy(TableGetAttr(classes', last'.other.v, "__allow_mixin_operation__",
                               PyBool(1)))) =>
         LET c == last'.other.v
             body == last'.kwargs
             declared == IF "__cloning_attrs__" \in DOMAIN body
                         THEN frozenset_of(body.__cloning_attrs__).v ELSE {}
         IN TableGetAttr(classes', c, "__cloning_attrs__", FrozenSet({})).v
               = declared \cup CarryOverOf(classes, Tail(MRO(c)))]_vars

(***************************************************************************)
(* Typed value containers: class Sample(Cloneable, Valueable[int]) of      *)
(* test_valueable and the same class over Valueable[bool], here            *)
(* BoolSample.  Every container is constructed with a value that           *)
(* check_value accepted.                                                   *)
(***************************************************************************)
InitTyped ==
    /\ classes = DefineClasses(<<"Cloneable", "Valueable", "ValueSample", "BoolSample">>)
    /\ heap = <<>>
    /\ last = NoCall
    /\ events = <<>>
    /\ threads = <<>>

NextTyped ==
    \/ \E c \in {"ValueSample", "BoolSample"}, v \in BoundValues : NewSample(c, v)
    \/ \E x \in Objects, v \in BoundValues : SetValue(x, v)
    \/ \E x \in Objects : Pos(x)
    \/ \E x \in Objects : Neg(x)

SpecTyped == InitTyped /\ [][NextTyped]_vars

\* C28 (held-value type): a container with a non-empty declared type set that
\* started unset or with a value of a declared type holds, after any sequence
\* of successful set_value, unary plus and unary minus, either the unset
\* sentinel or a value whose exact type is a member of the declared type set.
HeldValueType ==
    \A i \in Objects :
       LET T == DeclaredTypes(heap[i])
       IN Truthy(T) => \/ ValueOf(heap[i]) = Undefined
                       \/ TypeOf(ValueOf(heap[i])) \in T.v

(***************************************************************************)
(* Paths made by create_path on the sample classes, over the objects of    *)
(* InitPath.  A program ends when an exception is raised.                  *)
(***************************************************************************)
\* the two sample nodes, a model instance that is not Pathable, and an int
Segments == {Ref(1), Ref(2), Ref(4), PyInt(1)}

\* cls.create_path(current, forward=forward, backward=backward)
CreatePath(cls, current, forward, backward) ==
    /\ Perform([Called("create_path", 0, None) EXCEPT
                    !.args = [cls |-> cls, current |-> current, forward |-> forward,
                              backward |-> backward]],
               create_path(heap, cls, current, forward, backward))

\* no exception was raised and fewer than MaxPaths paths were made
CreatingPaths ==
    /\ last.exc = ""
    /\ Cardinality({i \in Objects : "__current__" \in DOMAIN heap[i].d}) < MaxPaths

NextCreatePath ==
    /\ CreatingPaths
    /\ \E cls \in {"PathSample1", "PathSample2"}, current \in Segments,
          forward \in Segments \cup {None}, backward \in Segments \cup {None} :
             CreatePath(cls, current, forward, backward)

SpecCreatePath == InitPath /\ [][NextCreatePath]_vars

\* C29 (create_path): create_path(current, forward=f, backward=b) succeeds
\* and returns a new path whose three segments are exactly current, f and b
\* when current is Pathable and each of f and b is null or Pathable; in every
\* other case it fails with InvalidPathError and makes no object.
CreatePathContract ==
    [][last'.op = "create_path" =>
         LET a == last'.args
             segment(x) == x = None \/ IsPathable(heap, x)
         IN IF IsPathable(heap, a.current) /\ segment(a.forward) /\ segment(a.backward)
            THEN /\ last'.exc = ""
                 /\ last'.ret.v \notin DOMAIN heap
                 /\ last'.ret.v \in DOMAIN heap'
                 /\ heap'[last'.ret.v].cls = a.cls
                 /\ Current(heap'[last'.ret.v]) = a.current
                 /\ Forward(heap'[last'.ret.v]) = a.forward
                 /\ Backward(heap'[last'.ret.v]) = a.backward
            ELSE /\ last'.exc = "InvalidPathError"
                 /\ heap' = heap]_vars

(***************************************************************************)
(* Chains: x1 >> x2 >> ... >> xn over the three bare nodes of InitPath,    *)
(* with at most MaxSteps steps in all.                                     *)
(***************************************************************************)
BareNodes == {Ref(1), Ref(2), Ref(3)}

\* x >> other, as a step of a chain
ChainStep(x, other) ==
    Perform(Called("__rshift__", x, other), Pathable_rshift(heap, x, other))

NextChain ==
    /\ Cardinality({i \in Objects : "__current__" \in DOMAIN heap[i].d}) < MaxSteps
    /\ \E x \in PathNodes, other \in BareNodes : ChainStep(x, other)

SpecChain == InitPath /\ [][NextChain]_vars

\* the nodes that following backward links from node i visits, i first, in at
\* most fuel steps; a link that is left when the fuel is spent is reported by
\* a final 0
RECURSIVE BackwardLinks(_, _, _)
BackwardLinks(h, i, fuel) ==
    IF Backward(h[i]) = None THEN <<i>>
    ELSE IF fuel = 0 THEN <<i, 0>>
    ELSE <<i>> \o BackwardLinks(h, Backward(h[i]).v, fuel - 1)

\* the segments of the chain that ends in node i, first to last: the current
\* segments of the nodes on the backward links, the farthest first, then the
\* forward segment of i
ChainOf(h, i) ==
    LET links == BackwardLinks(h, i, Len(h))
    IN [k \in 1..Len(links) |-> Current(h[links[Len(links) + 1 - k]])]
          \o <<Forward(h[i])>>

\* C30 (chain order): for bare nodes x1 .. xn, n >= 2, the path
\* p = x1 >> x2 >> ... >> xn has forward = xn and current = x(n-1), and the
\* backward links from p visit n - 2 further nodes whose current segments are
\* x(n-2), ..., x1 in that order, the last of them with a null backward; no
\* node of the chain is reachable from itself through backward links.  Step
\* by step: a step from a bare x to y gives the chain x, y, and a step from
\* the end of a chain to y gives that chain followed by y.
ChainOrder ==
    [][(last'.op = "__rshift__" /\ last'.exc = "") =>
         LET x == last'.self
             r == last'.ret.v
             links == BackwardLinks(heap', r, Len(heap'))
             chain == ChainOf(heap', r)
         IN /\ chain = IF IsBare(heap[x]) THEN <<Ref(x), last'.other>>
                       ELSE ChainOf(heap, x) \o <<last'.other>>
            /\ Forward(heap'[r]) = chain[Len(chain)]
            /\ Current(heap'[r]) = chain[Len(chain) - 1]
            /\ Len(links) = Len(chain) - 1
            /\ \A k \in DOMAIN links : links[k] # 0
            /\ \A k \in DOMAIN links : \A j \in DOMAIN links :
                  k # j => links[k] # links[j]]_vars

\* p = a >> b >> c >> a for the bare nodes a = 1, b = 2, c = 3: the backward
\* links from p visit the nodes whose current segments are b and a
ChainOrderWitness ==
    /\ Len(heap) = 8
    /\ last.op = "__rshift__" /\ last.exc = "" /\ last.ret = Ref(8)
    /\ ChainOf(heap, 8) = <<Ref(1), Ref(2), Ref(3), Ref(1)>>
    /\ Forward(heap[8]) = Ref(1) /\ Current(heap[8]) = Ref(3)
    /\ BackwardLinks(heap, 8, Len(heap)) = <<8, 7, 6>>
    /\ Current(heap[7]) = Ref(2) /\ Current(heap[6]) = Ref(1)
    /\ Backward(heap[6]) = None
    /\ IsBare(heap[1]) /\ IsBare(heap[2]) /\ IsBare(heap[3])

====
